---------------------------- MODULE Spec2Model ----------------------------
(***************************************************************************)
(* A model of the save-file decoder of revision-go (package remnant, with  *)
(* its helper packages ue and memory).                                     *)
(*                                                                         *)
(*   - the container layer (readSave, decompressData, decompressChunks)    *)
(*     is a state machine over a file made of a 12-byte header followed    *)
(*     by chunks, stepped one loop iteration at a time;                    *)
(*   - the archive layer and the property codec are recursive operators    *)
(*     over a byte buffer and a cursor with the semantics of bytes.Reader, *)
(*     one operator per Go function, applied by the actions of the         *)
(*     archive specifications.                                             *)
(***************************************************************************)
EXTENDS Integers, Sequences, FiniteSets, TLC

VARIABLES
    \* ---- container layer (ReadData) ----
    file,       \* the input file: header bytes present, chunks, truncation
    cpc,        \* position of ReadData: "open", "chunks", "inflate", "ok", "error", "panic"
    ci,         \* index of the chunk the current loop is at (0-based)
    saveFile,   \* the SaveFile readSave builds: Crc32, ContentSize, Version, Chunks
    result,     \* the bytes.Buffer of decompressChunks
    bufs,       \* what decompressData returned for each chunk so far
    cerr,       \* the error ReadData returns ("" when none)
    \* ---- archive layer ----
    inp,        \* how the buffer was put together, for the properties to refer to
    buf,        \* the decompressed byte buffer handed to the archive reader
    env,        \* the SaveData in whose scope the entry point is called
    entry,      \* which function of the archive layer the run calls
    pc,         \* "start" before the call, "done" after it
    ret         \* what the call returned: outcome, cursor, value

cvars == <<file, cpc, ci, saveFile, result, bufs, cerr>>
avars == <<inp, buf, env, entry, pc, ret>>
vars == <<file, cpc, ci, saveFile, result, bufs, cerr, inp, buf, env, entry, pc, ret>>

-----------------------------------------------------------------------------
(* Bounds of the model. *)

\* The largest number of chunks of an input file.
MaxChunks == 2

\* The largest number of properties of a generated property list.
MaxProps == 2

\* The largest number of components of a generated component list.
MaxComps == 2

\* The largest number of objects of a generated object table.
MaxObjects == 2

-----------------------------------------------------------------------------
(* Byte strings.  A byte string of the container layer is kept as a list   *)
(* of runs [b |-> byte, n |-> length], always in canonical form (no empty  *)
(* run, no two adjacent runs of the same byte), so that a chunk of         *)
(* 40 MiB is one run and equal strings are equal values.                   *)

RECURSIVE BLen(_)
BLen(s) == IF s = <<>> THEN 0 ELSE Head(s).n + BLen(Tail(s))

BCat(s, t) ==
    IF s = <<>> THEN t
    ELSE IF t = <<>> THEN s
    ELSE IF s[Len(s)].b = t[1].b
         THEN SubSeq(s, 1, Len(s) - 1)
              \o <<[b |-> t[1].b, n |-> s[Len(s)].n + t[1].n]>>
              \o Tail(t)
         ELSE s \o t

RECURSIVE BLit(_)
BLit(bytes) ==
    IF bytes = <<>> THEN <<>>
    ELSE BCat(<<[b |-> Head(bytes), n |-> 1]>>, BLit(Tail(bytes)))

RECURSIVE BTake(_, _)
BTake(s, k) ==
    IF k <= 0 \/ s = <<>> THEN <<>>
    ELSE IF Head(s).n <= k
         THEN BCat(<<Head(s)>>, BTake(Tail(s), k - Head(s).n))
         ELSE <<[b |-> Head(s).b, n |-> k]>>

RECURSIVE BDrop(_, _)
BDrop(s, k) ==
    IF k <= 0 \/ s = <<>> THEN s
    ELSE IF Head(s).n <= k
         THEN BDrop(Tail(s), k - Head(s).n)
         ELSE <<[b |-> Head(s).b, n |-> Head(s).n - k]>> \o Tail(s)

BRun(b, n) == IF n = 0 THEN <<>> ELSE <<[b |-> b, n |-> n]>>

\* binary.LittleEndian encoding of a uint32, as four bytes.
LE32(v) == <<v % 256, (v \div 256) % 256, (v \div 65536) % 256, (v \div 16777216) % 256>>


-----------------------------------------------------------------------------
(* The container layer: package remnant, ReadData.                         *)

maxCompressedSize == 20971520
maxDecompressedSize == 41943040

\* The size binary.Read consumes for a CompressedChunkHeader: three uint64,
\* one byte, three more uint64, with no padding.
ChunkHeaderSize == 8 + 8 + 1 + 8 + 8 + 8 + 8

\* The 12 bytes readSave reads before the chunks.
FileHeaderSize == 4 + 4 + 4

\* io.ReadFull of k bytes when `avail` bytes are left before end-of-input.
ReadFullErr(k, avail) ==
    IF k = 0 THEN "nil"
    ELSE IF avail = 0 THEN "EOF"
    ELSE IF avail < k THEN "unexpected EOF"
    ELSE "nil"

\* make([]byte, n) for the uint64 n = chi * 2^32 + clo: the runtime panics
\* (makeslice: len out of range) when n exceeds the largest allocation, 2^48.
MakePanics(chi, clo) == chi > 65536 \/ (chi = 65536 /\ clo > 0)

\* zlib.NewReader on a chunk's bytes: an error when the two header bytes are
\* missing or are no zlib header.
ZlibHeaderOk(data) == data.len >= 2 /\ data.z.hdr

\* decompressData: the size check, zlib.NewReader (panic on error), then
\* io.Copy through io.LimitReader(zr, maxDecompressedSize): the limit reader
\* reports end-of-input after maxDecompressedSize bytes, so a longer stream
\* is cut there with no error and its end is never read.
decompressData(data) ==
    IF data.len > maxCompressedSize
    THEN [st |-> "error", msg |-> "compressed data is too large", out |-> <<>>]
    ELSE IF ~ZlibHeaderOk(data)
    THEN [st |-> "panic", msg |-> "zlib: invalid header", out |-> <<>>]
    ELSE IF BLen(data.z.out) > maxDecompressedSize
    THEN [st |-> "ok", msg |-> "", out |-> BTake(data.z.out, maxDecompressedSize)]
    ELSE IF data.z.end # "ok"
    THEN [st |-> "error", msg |-> "failed to copy", out |-> <<>>]
    ELSE [st |-> "ok", msg |-> "", out |-> data.z.out]

NoSaveFile == [Crc32 |-> 0, ContentSize |-> 0, Version |-> 0, Chunks |-> <<>>]

\* readSave, up to the chunk loop: os.Open (panic on error) and the three
\* uint32 of the header, each read with binary.Read.
OpenRead ==
    /\ cpc = "open"
    /\ IF ~file.exists
       THEN /\ cpc' = "panic"
            /\ cerr' = "open: no such file"
            /\ UNCHANGED saveFile
       ELSE LET e1 == ReadFullErr(4, file.hdrBytes)
                e2 == ReadFullErr(4, file.hdrBytes - 4)
                e3 == ReadFullErr(4, file.hdrBytes - 8)
                e == IF e1 # "nil" THEN e1 ELSE IF e2 # "nil" THEN e2 ELSE e3
            IN IF e # "nil"
               THEN /\ cpc' = "error"
                    /\ cerr' = e
                    /\ UNCHANGED saveFile
               ELSE /\ cpc' = "chunks"
                    /\ cerr' = ""
                    /\ saveFile' = [Crc32 |-> file.crc, ContentSize |-> file.size,
                                    Version |-> file.ver, Chunks |-> <<>>]
    /\ UNCHANGED <<file, ci, result, bufs>>
    /\ UNCHANGED avars

\* The bytes of chunk i's payload that the file holds.
PayloadAvail(i) ==
    IF i = Len(file.chunks) THEN file.lastAvail ELSE file.chunks[i].clo

\* One iteration of the chunk loop of readSave: the header, then
\* make([]byte, CompressedSize) and the payload.
ReadChunkCode(i) ==
    IF i > Len(file.chunks)
    THEN \* no complete header is left
         LET e == ReadFullErr(ChunkHeaderSize, file.partial)
         IN IF e = "EOF"
            THEN [st |-> "break", msg |-> ""]
            ELSE [st |-> "error", msg |-> e]
    ELSE LET c == file.chunks[i]
         IN IF MakePanics(c.chi, c.clo)
            THEN [st |-> "panic", msg |-> "makeslice: len out of range"]
            ELSE LET e == ReadFullErr(c.clo, PayloadAvail(i))
                 IN IF e # "nil"
                    THEN [st |-> "error", msg |-> e]
                    ELSE [st |-> "append", msg |-> ""]

ReadChunk ==
    /\ cpc = "chunks"
    /\ LET r == ReadChunkCode(ci + 1)
       IN CASE r.st = "break" ->
                 /\ cpc' = "write"
                 /\ ci' = 0
                 /\ UNCHANGED <<saveFile, cerr>>
            [] r.st = "append" ->
                 /\ saveFile' = [saveFile EXCEPT !.Chunks =
                        Append(@, [len |-> file.chunks[ci + 1].clo,
                                   z |-> file.chunks[ci + 1].z])]
                 /\ ci' = ci + 1
                 /\ UNCHANGED <<cpc, cerr>>
            [] OTHER ->
                 /\ cpc' = r.st
                 /\ cerr' = r.msg
                 /\ UNCHANGED <<saveFile, ci>>
    /\ UNCHANGED <<file, result, bufs>>
    /\ UNCHANGED avars

\* decompressChunks, before its loop: the two binary.Write calls.
HeaderWritten(sf) == BCat(BLit(LE32(sf.Crc32)), BLit(LE32(sf.ContentSize)))

WriteHeader ==
    /\ cpc = "write"
    /\ result' = HeaderWritten(saveFile)
    /\ cpc' = "inflate"
    /\ UNCHANGED <<file, ci, saveFile, bufs, cerr>>
    /\ UNCHANGED avars

\* result.Write(buf)
WriteChunk(res, b) == BCat(res, b)

\* One iteration of the loop of decompressChunks.
DecompressChunk ==
    /\ cpc = "inflate"
    /\ ci < Len(saveFile.Chunks)
    /\ LET r == decompressData(saveFile.Chunks[ci + 1])
       IN IF r.st = "ok"
          THEN /\ result' = WriteChunk(result, r.out)
               /\ bufs' = Append(bufs, r.out)
               /\ ci' = ci + 1
               /\ UNCHANGED <<cpc, cerr>>
          ELSE /\ cpc' = r.st
               /\ cerr' = IF r.st = "error"
                          THEN "failed to decompress chunk: " \o r.msg
                          ELSE r.msg
               /\ UNCHANGED <<result, bufs, ci>>
    /\ UNCHANGED <<file, saveFile>>
    /\ UNCHANGED avars

\* A decoder that inserts the version after the first eight bytes, making a
\* 12-byte header, where the code overwrites four bytes.
PutVersionInserted(data, version) ==
    BCat(BCat(BTake(data, 8), BLit(LE32(version))), BDrop(data, 8))

\* binary.LittleEndian.PutUint32(data[8:], Version): the four bytes at
\* offsets 8..11 of the buffer are replaced; the call panics when the slice
\* data[8:] is shorter than four bytes.
PutVersion(data, version) ==
    BCat(BCat(BTake(data, 8), BLit(LE32(version))), BDrop(data, 12))

\* decompressChunks, after its loop.
FinishChunks ==
    /\ cpc = "inflate"
    /\ ci = Len(saveFile.Chunks)
    /\ IF BLen(result) - 8 < 4
       THEN /\ cpc' = "panic"
            /\ cerr' = "index out of range"
            /\ UNCHANGED result
       ELSE /\ cpc' = "ok"
            /\ result' = PutVersion(result, saveFile.Version)
            /\ UNCHANGED cerr
    /\ UNCHANGED <<file, ci, saveFile, bufs>>
    /\ UNCHANGED avars


-----------------------------------------------------------------------------
(* The input files of the container specification.                         *)

\* A zlib stream: whether its two header bytes are valid, the bytes it
\* inflates to, and whether it ends well or with a corrupt block or checksum.
ZStream(hdr, out, end) == [hdr |-> hdr, out |-> out, end |-> end]

\* A chunk on file: the CompressedSize field of its header (chi * 2^32 + clo)
\* and the zlib stream its payload holds.
Chunk(chi, clo, z) == [chi |-> chi, clo |-> clo, z |-> z]

ChunkMenu ==
    { Chunk(0, 14, ZStream(TRUE, BLit(<<1, 2, 3>>), "ok")),
      Chunk(0, 16, ZStream(TRUE, BLit(<<4, 5, 6, 7, 8>>), "ok")),
      Chunk(0, 8, ZStream(TRUE, <<>>, "ok")),
      Chunk(0, 14, ZStream(TRUE, BLit(<<1, 2, 3>>), "corrupt")),
      Chunk(0, 9, ZStream(FALSE, <<>>, "ok")),
      Chunk(0, 0, ZStream(FALSE, <<>>, "ok")),
      Chunk(0, maxCompressedSize, ZStream(TRUE, BLit(<<9, 9>>), "ok")),
      Chunk(0, maxCompressedSize + 1, ZStream(TRUE, BLit(<<9, 9>>), "ok")),
      Chunk(0, 50000, ZStream(TRUE, BRun(7, maxDecompressedSize), "ok")),
      Chunk(0, 50000, ZStream(TRUE, BRun(7, maxDecompressedSize + 1), "ok")),
      Chunk(0, 50000, ZStream(TRUE, BRun(7, maxDecompressedSize + 1), "corrupt")),
      Chunk(65537, 0, ZStream(TRUE, <<>>, "ok")) }

ChunkSeqs == UNION { [1..k -> ChunkMenu] : k \in 0..MaxChunks }

\* The payload bytes of the last chunk a file may hold: all of them, all but
\* one, or none.  A chunk of 2^48 bytes or more is never whole.
LastAvails(cs) ==
    IF cs = <<>> THEN {0}
    ELSE LET c == cs[Len(cs)]
         IN IF c.chi > 0 THEN {0, 10}
            ELSE {c.clo} \cup (IF c.clo > 0 THEN {0, c.clo - 1} ELSE {})

WholeChunks(cs, avail) == cs = <<>> \/ (cs[Len(cs)].chi = 0 /\ cs[Len(cs)].clo = avail)

\* Only the last chunk can be cut short; every chunk before it is whole.
InnerWhole(cs) == \A i \in 1..(Len(cs) - 1) : cs[i].chi = 0

Files ==
    { [exists |-> FALSE, hdrBytes |-> 0, crc |-> 0, size |-> 0, ver |-> 0,
       chunks |-> <<>>, lastAvail |-> 0, partial |-> 0] }
    \cup
    { [exists |-> TRUE, hdrBytes |-> h, crc |-> 336794129, size |-> 606348321, ver |-> 9,
       chunks |-> <<>>, lastAvail |-> 0, partial |-> 0] : h \in {0, 3, 4, 11} }
    \cup
    { [exists |-> TRUE, hdrBytes |-> FileHeaderSize, crc |-> 336794129,
       size |-> 606348321, ver |-> 9,
       chunks |-> f[1], lastAvail |-> f[2], partial |-> f[3]] :
         f \in { g \in ChunkSeqs \X {0, 10, maxCompressedSize, maxCompressedSize + 1, 13, 7, 49999, 50000, 15, 16, 14, 9, 8}
                       \X {0, 1, ChunkHeaderSize - 1} :
                   /\ InnerWhole(g[1])
                   /\ g[2] \in LastAvails(g[1])
                   /\ (g[3] > 0 => WholeChunks(g[1], g[2])) } }

\* The archive layer's variables while the container specification runs.
ArchiveIdle ==
    /\ inp = <<>>
    /\ buf = <<>>
    /\ env = <<>>
    /\ entry = "none"
    /\ pc = "idle"
    /\ ret = <<>>

InitContainer ==
    /\ file \in Files
    /\ cpc = "open"
    /\ ci = 0
    /\ saveFile = NoSaveFile
    /\ result = <<>>
    /\ bufs = <<>>
    /\ cerr = ""
    /\ ArchiveIdle

NextContainer ==
    \/ OpenRead
    \/ ReadChunk
    \/ WriteHeader
    \/ DecompressChunk
    \/ FinishChunks

SpecContainer == InitContainer /\ [][NextContainer]_vars



-----------------------------------------------------------------------------

(* The archive layer.  A string is the sequence of its bytes; the string   *)
(* literals of the code are spelled out in ASCII.                          *)

\* "None"
STR_None ==
    <<78, 111, 110, 101>>

\* "IntProperty"
STR_IntProperty ==
    <<73, 110, 116, 80, 114, 111, 112, 101, 114, 116, 121>>

\* "Int16Property"
STR_Int16Property ==
    <<73, 110, 116, 49, 54, 80, 114, 111, 112, 101, 114, 116, 121>>

\* "Int64Property"
STR_Int64Property ==
    <<73, 110, 116, 54, 52, 80, 114, 111, 112, 101, 114, 116, 121>>

\* "UInt64Property"
STR_UInt64Property ==
    <<85, 73, 110, 116, 54, 52, 80, 114, 111, 112, 101, 114, 116, 121>>

\* "FloatProperty"
STR_FloatProperty ==
    <<70, 108, 111, 97, 116, 80, 114, 111, 112, 101, 114, 116, 121>>

\* "DoubleProperty"
STR_DoubleProperty ==
    <<68, 111, 117, 98, 108, 101, 80, 114, 111, 112, 101, 114, 116, 121>>

\* "UInt16Property"
STR_UInt16Property ==
    <<85, 73, 110, 116, 49, 54, 80, 114, 111, 112, 101, 114, 116, 121>>

\* "UInt32Property"
STR_UInt32Property ==
    <<85, 73, 110, 116, 51, 50, 80, 114, 111, 112, 101, 114, 116, 121>>

\* "SoftClassPath"
STR_SoftClassPath ==
    <<83, 111, 102, 116, 67, 108, 97, 115, 115, 80, 97, 116, 104>>

\* "SoftObjectProperty"
STR_SoftObjectProperty ==
    <<83, 111, 102, 116, 79, 98, 106, 101, 99, 116, 80, 114, 111, 112, 101, 114, 116, 121>>

\* "BoolProperty"
STR_BoolProperty ==
    <<66, 111, 111, 108, 80, 114, 111, 112, 101, 114, 116, 121>>

\* "MapProperty"
STR_MapProperty ==
    <<77, 97, 112, 80, 114, 111, 112, 101, 114, 116, 121>>

\* "EnumProperty"
STR_EnumProperty ==
    <<69, 110, 117, 109, 80, 114, 111, 112, 101, 114, 116, 121>>

\* "StrProperty"
STR_StrProperty ==
    <<83, 116, 114, 80, 114, 111, 112, 101, 114, 116, 121>>

\* "TextProperty"
STR_TextProperty ==
    <<84, 101, 120, 116, 80, 114, 111, 112, 101, 114, 116, 121>>

\* "NameProperty"
STR_NameProperty ==
    <<78, 97, 109, 101, 80, 114, 111, 112, 101, 114, 116, 121>>

\* "ArrayProperty"
STR_ArrayProperty ==
    <<65, 114, 114, 97, 121, 80, 114, 111, 112, 101, 114, 116, 121>>

\* "StructProperty"
STR_StructProperty ==
    <<83, 116, 114, 117, 99, 116, 80, 114, 111, 112, 101, 114, 116, 121>>

\* "ObjectProperty"
STR_ObjectProperty ==
    <<79, 98, 106, 101, 99, 116, 80, 114, 111, 112, 101, 114, 116, 121>>

\* "ByteProperty"
STR_ByteProperty ==
    <<66, 121, 116, 101, 80, 114, 111, 112, 101, 114, 116, 121>>

\* "SoftObjectPath"
STR_SoftObjectPath ==
    <<83, 111, 102, 116, 79, 98, 106, 101, 99, 116, 80, 97, 116, 104>>

\* "Timespan"
STR_Timespan ==
    <<84, 105, 109, 101, 115, 112, 97, 110>>

\* "Guid"
STR_Guid ==
    <<71, 117, 105, 100>>

\* "Vector"
STR_Vector ==
    <<86, 101, 99, 116, 111, 114>>

\* "DateTime"
STR_DateTime ==
    <<68, 97, 116, 101, 84, 105, 109, 101>>

\* "PersistenceBlob"
STR_PersistenceBlob ==
    <<80, 101, 114, 115, 105, 115, 116, 101, 110, 99, 101, 66, 108, 111, 98>>

\* "FowVisitedCoordinates"
STR_FowVisitedCoordinates ==
    <<70, 111, 119, 86, 105, 115, 105, 116, 101, 100, 67, 111, 111, 114, 100, 105, 110, 97, 116, 101, 115>>

\* "GlobalVariables"
STR_GlobalVariables ==
    <<71, 108, 111, 98, 97, 108, 86, 97, 114, 105, 97, 98, 108, 101, 115>>

\* "Variables"
STR_Variables ==
    <<86, 97, 114, 105, 97, 98, 108, 101, 115>>

\* "Variable"
STR_Variable ==
    <<86, 97, 114, 105, 97, 98, 108, 101>>

\* "PersistenceKeys"
STR_PersistenceKeys ==
    <<80, 101, 114, 115, 105, 115, 116, 101, 110, 99, 101, 75, 101, 121, 115>>

\* "PersistanceKeys1"
STR_PersistanceKeys1 ==
    <<80, 101, 114, 115, 105, 115, 116, 97, 110, 99, 101, 75, 101, 121, 115, 49>>

\* "PersistenceKeys1"
STR_PersistenceKeys1 ==
    <<80, 101, 114, 115, 105, 115, 116, 101, 110, 99, 101, 75, 101, 121, 115, 49>>

\* "UNSUPPORTED"
STR_UNSUPPORTED ==
    <<85, 78, 83, 85, 80, 80, 79, 82, 84, 69, 68>>

\* "FloatProeprty"
STR_FloatProeprty ==
    <<70, 108, 111, 97, 116, 80, 114, 111, 101, 112, 114, 116, 121>>

\* "/Game/_Core/Blueprints/Base/BP_RemnantSaveGameProfile"
REMNANT_SAVE_GAME_PROFILE ==
    <<47, 71, 97, 109, 101, 47, 95, 67, 111, 114, 101, 47, 66, 108, 117, 101, 112, 114, 105, 110, 116, 115, 47, 66, 97, 115, 101, 47, 66, 80, 95, 82, 101, 109, 110, 97, 110, 116, 83, 97, 118, 101, 71, 97, 109, 101, 80, 114, 111, 102, 105, 108, 101>>

\* "/Game/_Core/Blueprints/Base/BP_RemnantSaveGame"
REMNANT_SAVE_GAME ==
    <<47, 71, 97, 109, 101, 47, 95, 67, 111, 114, 101, 47, 66, 108, 117, 101, 112, 114, 105, 110, 116, 115, 47, 66, 97, 115, 101, 47, 66, 80, 95, 82, 101, 109, 110, 97, 110, 116, 83, 97, 118, 101, 71, 97, 109, 101>>


\* A uint32 of 2^31 or more is kept as 2^31 - 1: every buffer of the model
\* is far shorter, and the decoder uses such a value only as a count, a
\* length or an offset, where every value past the end of the buffer takes
\* the same branch.
MaxInt31 == 2147483647

(* What a read returns: st is "ok", "err" (an error value is returned),    *)
(* "panic" (a run-time panic unwinds the decoder) or "fatal" (log.Fatal    *)
(* exits the process); p is the cursor after the read; v is the value.     *)
Ok(p, v) == [st |-> "ok", p |-> p, v |-> v, msg |-> ""]
Err(p, msg) == [st |-> "err", p |-> p, v |-> <<>>, msg |-> msg]
Panic(p, msg) == [st |-> "panic", p |-> p, v |-> <<>>, msg |-> msg]
Fatal(p, msg) == [st |-> "fatal", p |-> p, v |-> <<>>, msg |-> msg]

(* A statement  x := E  followed by the rest of the function is written   *)
(*     CHOOSE out \in { rest : x \in {E} } : TRUE                          *)
(* which is the value of rest with x bound to the value of E, E being      *)
(* evaluated once; the statements of a function read from the innermost    *)
(* line outwards.                                                          *)

\* fmt.Errorf(prefix + "%w", err): only a returned error is wrapped.
Wrap(r, prefix) == IF r.st = "err" THEN [r EXCEPT !.msg = prefix \o @] ELSE r

\* The outcome of a read made through a reader of its own, seen by the
\* caller whose cursor is p.
At(r, p) == [r EXCEPT !.p = p]

\* The bytes left to read by a bytes.Reader over b whose cursor is p.
Avail(b, p) == IF p >= Len(b) THEN 0 ELSE Len(b) - p

\* b[p : p+k]
Slice(b, p, k) == SubSeq(b, p + 1, p + k)

Zeros(k) == [i \in 1..k |-> 0]

\* binary.Read of a k-byte value from a bytes.Reader (io.ReadFull): io.EOF
\* when no byte is left, io.ErrUnexpectedEOF (the bytes left consumed) when
\* fewer than k are.
ReadBytes(b, p, k) ==
    IF k = 0 THEN Ok(p, <<>>)
    ELSE IF Avail(b, p) = 0 THEN Err(p, "EOF")
    ELSE IF Avail(b, p) < k THEN Err(Len(b), "unexpected EOF")
    ELSE Ok(p + k, Slice(b, p, k))

\* r.Read(make([]byte, k)) on a bytes.Reader: io.EOF when no byte is left
\* (whatever k is); otherwise the bytes left, up to k, are copied and no
\* error is returned: a short read leaves the rest of the slice zero.
RawRead(b, p, k) ==
    IF Avail(b, p) = 0 THEN Err(p, "EOF")
    ELSE CHOOSE out \in {
             Ok(p + n, Slice(b, p, n) \o Zeros(k - n))
           : n \in {IF Avail(b, p) < k THEN Avail(b, p) ELSE k} } : TRUE

\* r.Seek(k, io.SeekCurrent) on a bytes.Reader with k >= 0: never an error,
\* the cursor may pass the end.
Skip(p, k) == p + k

ReadU8(b, p) ==
    CHOOSE out \in {
        IF r.st # "ok" THEN r ELSE Ok(r.p, r.v[1])
      : r \in {ReadBytes(b, p, 1)} } : TRUE

ReadU16(b, p) ==
    CHOOSE out \in {
        IF r.st # "ok" THEN r ELSE Ok(r.p, r.v[1] + 256 * r.v[2])
      : r \in {ReadBytes(b, p, 2)} } : TRUE

U32Of(x) ==
    IF x[4] >= 128 THEN MaxInt31
    ELSE x[1] + 256 * x[2] + 65536 * x[3] + 16777216 * x[4]

I32Of(x) ==
    x[1] + 256 * x[2] + 65536 * x[3]
        + 16777216 * (IF x[4] >= 128 THEN x[4] - 256 ELSE x[4])

\* A uint64 used as an offset: its low 32 bits when the high 32 are zero.
U64Of(x) ==
    IF x[5] # 0 \/ x[6] # 0 \/ x[7] # 0 \/ x[8] # 0 THEN MaxInt31
    ELSE U32Of(SubSeq(x, 1, 4))

ReadU32(b, p) ==
    CHOOSE out \in {
        IF r.st # "ok" THEN r ELSE Ok(r.p, U32Of(r.v))
      : r \in {ReadBytes(b, p, 4)} } : TRUE

ReadI32(b, p) ==
    CHOOSE out \in {
        IF r.st # "ok" THEN r ELSE Ok(r.p, I32Of(r.v))
      : r \in {ReadBytes(b, p, 4)} } : TRUE

\* bytes.Trim(s, "\x00")
RECURSIVE TrimLeft(_)
TrimLeft(s) == IF s # <<>> /\ Head(s) = 0 THEN TrimLeft(Tail(s)) ELSE s

RECURSIVE TrimRight(_)
TrimRight(s) ==
    IF s # <<>> /\ s[Len(s)] = 0 THEN TrimRight(SubSeq(s, 1, Len(s) - 1)) ELSE s

Trim(s) == TrimRight(TrimLeft(s))

\* ue.ReadFString
ReadFString(b, p) ==
    CHOOSE out \in {
        IF n.st # "ok" THEN n
        ELSE IF n.v <= 0 THEN Ok(n.p, <<>>)
        ELSE CHOOSE out \in {
                 IF d.st # "ok" THEN d ELSE Ok(d.p, Trim(d.v))
               : d \in {ReadBytes(b, n.p, n.v)} } : TRUE
      : n \in {ReadI32(b, p)} } : TRUE

\* ue.ReadFName: the high bit of the uint16 says that an int32 number follows.
HAS_NUMBER == 32768

\* ReadFName with the flag left in the index.
ReadFNameFlagKept(b, p) ==
    CHOOSE out \in {
        IF i.st # "ok" THEN i
        ELSE IF i.v >= HAS_NUMBER
        THEN CHOOSE out \in {
                 IF n.st # "ok" THEN n
                 ELSE Ok(n.p, [Index |-> i.v, Number |-> n.v])
               : n \in {ReadI32(b, i.p)} } : TRUE
        ELSE Ok(i.p, [Index |-> i.v, Number |-> 0])
      : i \in {ReadU16(b, p)} } : TRUE

ReadFName(b, p) ==
    CHOOSE out \in {
        IF i.st # "ok" THEN i
        ELSE IF i.v >= HAS_NUMBER
        THEN CHOOSE out \in {
                 IF n.st # "ok" THEN n
                 ELSE Ok(n.p, [Index |-> i.v - HAS_NUMBER, Number |-> n.v])
               : n \in {ReadI32(b, i.p)} } : TRUE
        ELSE Ok(i.p, [Index |-> i.v, Number |-> 0])
      : i \in {ReadU16(b, p)} } : TRUE

\* ue.ReadGuid, ue.ReadFVector, ue.ReadFTransform, ue.ReadFInfo: binary.Read
\* of a fixed-size struct; the value is kept as its bytes.
ReadGuid(b, p) == ReadBytes(b, p, 16)
ReadFVector(b, p) == ReadBytes(b, p, 24)
ReadFTransform(b, p) == ReadBytes(b, p, 80)

ReadFInfo(b, p) ==
    CHOOSE out \in {
        IF r.st # "ok" THEN r
        ELSE Ok(r.p, [UniqueID |-> SubSeq(r.v, 1, 8),
                      Offset |-> U32Of(SubSeq(r.v, 9, 12)),
                      Size |-> U32Of(SubSeq(r.v, 13, 16))])
      : r \in {ReadBytes(b, p, 16)} } : TRUE

\* ue.ReadFTopLevelAssetPath
ReadFTopLevelAssetPath(b, p) ==
    CHOOSE out \in {
        IF a.st # "ok" THEN a
        ELSE CHOOSE out \in {
                 IF n.st # "ok" THEN n
                 ELSE Ok(n.p, [Path |-> a.v, Name |-> n.v])
               : n \in {ReadFString(b, a.p)} } : TRUE
      : a \in {ReadFString(b, p)} } : TRUE

\* Names resolved against one table for the whole run, the table of the
\* archive the run started with, whichever archive is being read.
readNameShared(b, p, saveData) ==
    CHOOSE out \in {
        CHOOSE out \in {
            IF f.st # "ok" THEN f
            ELSE IF f.v.Index >= Len(table)
            THEN Err(f.p, "readNameProperty: invalid index")
            ELSE Ok(f.p, table[f.v.Index + 1])
          : table \in {IF entry = "ReadSaveArchive"
                       THEN <<STR_None, STR_IntProperty, STR_StructProperty,
                              STR_PersistenceBlob, <<66, 108, 111, 98>>,
                              <<72, 101, 97, 108, 116, 104>>, <<83, 108, 111, 116>>,
                              STR_NameProperty, STR_ObjectProperty>>
                       ELSE saveData.NamesTable} } : TRUE
      : f \in {ReadFName(b, p)} } : TRUE

\* A name index equal to the table's length passes the bounds check.
readNameOffByOne(b, p, saveData) ==
    CHOOSE out \in {
        IF f.st # "ok" THEN f
        ELSE IF f.v.Index > Len(saveData.NamesTable)
        THEN Err(f.p, "readNameProperty: invalid index")
        ELSE IF f.v.Index = Len(saveData.NamesTable)
        THEN Panic(f.p, "index out of range")
        ELSE Ok(f.p, saveData.NamesTable[f.v.Index + 1])
      : f \in {ReadFName(b, p)} } : TRUE

\* readName: an FName resolved against the names table of saveData.
readName(b, p, saveData) ==
    CHOOSE out \in {
        IF f.st # "ok" THEN f
        ELSE IF f.v.Index >= Len(saveData.NamesTable)
        THEN Err(f.p, "readNameProperty: invalid index")
        ELSE Ok(f.p, saveData.NamesTable[f.v.Index + 1])
      : f \in {ReadFName(b, p)} } : TRUE


-----------------------------------------------------------------------------
(* The property codec: remnant/property-types.go.                          *)

\* r.Read(make([]byte, k)) when only the bytes read matter (a string is
\* trimmed of the zero bytes a short read leaves).
RawReadN(b, p, k) ==
    IF Avail(b, p) = 0 THEN Err(p, "EOF")
    ELSE CHOOSE out \in {
             Ok(p + n, Slice(b, p, n))
           : n \in {IF Avail(b, p) < k THEN Avail(b, p) ELSE k} } : TRUE

\* readNumProperty[T]: width is the size of T; the value is kept as its bytes.
readNumProperty(b, p, width, raw) ==
    CHOOSE out \in {
        CHOOSE out \in {
            IF r.st # "ok" THEN Wrap(r, "readIntProperty: ")
            ELSE Ok(r.p, [k |-> "num", raw |-> r.v])
          : r \in {ReadBytes(b, q, width)} } : TRUE
      : q \in {IF raw THEN p ELSE Skip(p, 1)} } : TRUE

\* A BoolProperty read like the other scalars, the pad before the value.
readBoolPropertyPadFirst(b, p, raw) ==
    CHOOSE out \in {
        IF r.st # "ok" THEN Wrap(r, "readBoolProperty: ")
        ELSE Ok(r.p, [k |-> "bool", v |-> (r.v = 1)])
      : r \in {ReadU8(b, IF raw THEN p ELSE Skip(p, 1))} } : TRUE

readBoolProperty(b, p, raw) ==
    CHOOSE out \in {
        IF r.st # "ok" THEN Wrap(r, "readBoolProperty: ")
        ELSE Ok(IF raw THEN r.p ELSE Skip(r.p, 1), [k |-> "bool", v |-> (r.v = 1)])
      : r \in {ReadU8(b, p)} } : TRUE

readStrProperty(b, p, raw) ==
    CHOOSE out \in {
        CHOOSE out \in {
            IF n.st # "ok" THEN Wrap(n, "readStrProperty: ")
            ELSE IF n.v = 0 THEN Ok(n.p, [k |-> "str", v |-> <<>>])
            ELSE IF n.v < 0 THEN Panic(n.p, "makeslice: len out of range")
            ELSE CHOOSE out \in {
                     IF d.st # "ok" THEN Wrap(d, "readStrProperty: ")
                     ELSE Ok(d.p, [k |-> "str", v |-> Trim(d.v)])
                   : d \in {RawReadN(b, n.p, n.v)} } : TRUE
          : n \in {ReadI32(b, q)} } : TRUE
      : q \in {IF raw THEN p ELSE Skip(p, 1)} } : TRUE

\* The two cases of getPropertyValue that read an FString after the pad.
readSoftPath(b, p, raw) ==
    CHOOSE out \in {
        CHOOSE out \in {
            IF r.st # "ok" THEN r ELSE Ok(r.p, [k |-> "str", v |-> r.v])
          : r \in {ReadFString(b, q)} } : TRUE
      : q \in {IF raw THEN p ELSE Skip(p, 1)} } : TRUE

readNameProperty(b, p, saveData, raw) ==
    CHOOSE out \in {
        CHOOSE out \in {
            IF r.st # "ok" THEN r ELSE Ok(r.p, [k |-> "str", v |-> r.v])
          : r \in {readName(b, q, saveData)} } : TRUE
      : q \in {IF raw THEN p ELSE Skip(p, 1)} } : TRUE

\* readObjectProperty: the index is used on the object table unchecked.
readObjectProperty(b, p, saveData, raw) ==
    CHOOSE out \in {
        CHOOSE out \in {
            IF i.st # "ok" THEN i
            ELSE IF i.v = -1 THEN Ok(i.p, [k |-> "object", ClassName |-> <<>>])
            ELSE IF i.v < 0 \/ i.v >= Len(saveData.Objects)
            THEN Panic(i.p, "index out of range")
            ELSE Ok(i.p, [k |-> "object", ClassName |-> saveData.Objects[i.v + 1].ObjectPath])
          : i \in {ReadI32(b, q)} } : TRUE
      : q \in {IF raw THEN p ELSE Skip(p, 1)} } : TRUE

\* A tagged ByteProperty read with no pad byte between the enum name and
\* the value.
readBytePropertyNoPad(b, p, saveData, raw) ==
    IF raw
    THEN CHOOSE out \in {
             IF r.st # "ok" THEN r ELSE Ok(r.p, [k |-> "byte", v |-> r.v])
           : r \in {ReadU8(b, p)} } : TRUE
    ELSE CHOOSE out \in {
             IF name.st # "ok" THEN name
             ELSE IF name.v = STR_None
             THEN CHOOSE out \in {
                      IF r.st # "ok" THEN r
                      ELSE Ok(r.p, [k |-> "byte", v |-> r.v])
                    : r \in {ReadU8(b, name.p)} } : TRUE
             ELSE CHOOSE out \in {
                      IF e.st # "ok" THEN e
                      ELSE Ok(e.p, [k |-> "str", v |-> e.v])
                    : e \in {readName(b, name.p, saveData)} } : TRUE
           : name \in {readName(b, p, saveData)} } : TRUE

readByteProperty(b, p, saveData, raw) ==
    IF raw
    THEN CHOOSE out \in {
             IF r.st # "ok" THEN r ELSE Ok(r.p, [k |-> "byte", v |-> r.v])
           : r \in {ReadU8(b, p)} } : TRUE
    ELSE CHOOSE out \in {
             IF name.st # "ok" THEN name
             ELSE CHOOSE out \in {
                      IF name.v = STR_None
                      THEN CHOOSE out \in {
                               IF r.st # "ok" THEN r
                               ELSE Ok(r.p, [k |-> "byte", v |-> r.v])
                             : r \in {ReadU8(b, q)} } : TRUE
                      ELSE CHOOSE out \in {
                               IF e.st # "ok" THEN e
                               ELSE Ok(e.p, [k |-> "str", v |-> e.v])
                             : e \in {readName(b, q, saveData)} } : TRUE
                    : q \in {Skip(name.p, 1)} } : TRUE
           : name \in {readName(b, p, saveData)} } : TRUE

readArrayStructHeader(b, p, saveData) ==
    CHOOSE out \in {
        CHOOSE out \in {
            IF size.st # "ok" THEN size
            ELSE CHOOSE out \in {
                     IF elementType.st # "ok" THEN elementType
                     ELSE CHOOSE out \in {
                              IF guid.st # "ok" THEN guid
                              ELSE Ok(Skip(guid.p, 1),
                                      [ElementType |-> elementType.v, GUID |-> guid.v,
                                       Size |-> size.v])
                            : guid \in {ReadGuid(b, elementType.p)} } : TRUE
                   : elementType \in {readName(b, Skip(size.p, 4), saveData)} } : TRUE
          : size \in {ReadU32(b, q)} } : TRUE
      : q \in {Skip(Skip(p, 2), 2)} } : TRUE

readEnumProperty(b, p, saveData) ==
    CHOOSE out \in {
        IF enumType.st # "ok" THEN Wrap(enumType, "readEnumProperty: ")
        ELSE CHOOSE out \in {
                 IF enumValue.st # "ok"
                 THEN Wrap(enumValue, "readEnumProperty: ")
                 ELSE Ok(enumValue.p, [k |-> "enum", EnumType |-> enumType.v,
                                       EnumValue |-> enumValue.v])
               : enumValue \in {readName(b, Skip(enumType.p, 1), saveData)} } : TRUE
      : enumType \in {readName(b, p, saveData)} } : TRUE

\* A TextProperty reader that takes a history type it does not know for one
\* that holds a string.
readTextPropertyGuessed(b, p, raw) ==
    CHOOSE out \in {
        CHOOSE out \in {
            IF flags.st # "ok" THEN flags
            ELSE CHOOSE out \in {
                     LET val(data) == [k |-> "text", Flags |-> flags.v,
                                       HistoryType |-> historyType.v, Data |-> data]
                     IN IF historyType.st # "ok" THEN historyType
                        ELSE IF historyType.v = 0
                        THEN CHOOSE out \in {
                                 IF namespace.st # "ok" THEN namespace
                                 ELSE CHOOSE out \in {
                                          IF key.st # "ok" THEN key
                                          ELSE CHOOSE out \in {
                                                   IF sourceString.st # "ok" THEN sourceString
                                                   ELSE Ok(sourceString.p,
                                                           val([k |-> "TextPropertyData",
                                                                Namespace |-> namespace.v,
                                                                Key |-> key.v,
                                                                SourceString |-> sourceString.v]))
                                                 : sourceString \in {ReadFString(b, key.p)} } : TRUE
                                        : key \in {ReadFString(b, namespace.p)} } : TRUE
                               : namespace \in {ReadFString(b, historyType.p)} } : TRUE
                        ELSE IF historyType.v = 255
                        THEN CHOOSE out \in {
                                 IF flag.st # "ok" THEN flag
                                 ELSE IF flag.v # 0
                                 THEN CHOOSE out \in {
                                          IF stringData.st # "ok" THEN stringData
                                          ELSE Ok(stringData.p,
                                                  val([k |-> "TextData", Data |-> stringData.v]))
                                        : stringData \in {ReadFString(b, flag.p)} } : TRUE
                                 ELSE Ok(flag.p, val([k |-> "nil"]))
                               : flag \in {ReadU32(b, historyType.p)} } : TRUE
                        ELSE CHOOSE out \in {
                                 IF stringData.st # "ok" THEN stringData
                                 ELSE Ok(stringData.p,
                                         val([k |-> "TextData", Data |-> stringData.v]))
                               : stringData \in {ReadFString(b, historyType.p)} } : TRUE
                   : historyType \in {ReadU8(b, flags.p)} } : TRUE
          : flags \in {ReadU32(b, q)} } : TRUE
      : q \in {IF raw THEN p ELSE Skip(p, 1)} } : TRUE

readTextProperty(b, p, raw) ==
    CHOOSE out \in {
        CHOOSE out \in {
            IF flags.st # "ok" THEN flags
            ELSE CHOOSE out \in {
                     LET val(data) == [k |-> "text", Flags |-> flags.v,
                                       HistoryType |-> historyType.v, Data |-> data]
                     IN IF historyType.st # "ok" THEN historyType
                        ELSE IF historyType.v = 0
                        THEN CHOOSE out \in {
                                 IF namespace.st # "ok" THEN namespace
                                 ELSE CHOOSE out \in {
                                          IF key.st # "ok" THEN key
                                          ELSE CHOOSE out \in {
                                                   IF sourceString.st # "ok" THEN sourceString
                                                   ELSE Ok(sourceString.p,
                                                           val([k |-> "TextPropertyData",
                                                                Namespace |-> namespace.v,
                                                                Key |-> key.v,
                                                                SourceString |-> sourceString.v]))
                                                 : sourceString \in {ReadFString(b, key.p)} } : TRUE
                                        : key \in {ReadFString(b, namespace.p)} } : TRUE
                               : namespace \in {ReadFString(b, historyType.p)} } : TRUE
                        ELSE IF historyType.v = 255
                        THEN CHOOSE out \in {
                                 IF flag.st # "ok" THEN flag
                                 ELSE IF flag.v # 0
                                 THEN CHOOSE out \in {
                                          IF stringData.st # "ok" THEN stringData
                                          ELSE Ok(stringData.p,
                                                  val([k |-> "TextData", Data |-> stringData.v]))
                                        : stringData \in {ReadFString(b, flag.p)} } : TRUE
                                 ELSE Ok(flag.p, val([k |-> "nil"]))
                               : flag \in {ReadU32(b, historyType.p)} } : TRUE
                        ELSE Ok(historyType.p,
                                val([k |-> "TextPropertyData",
                                     Namespace |-> STR_UNSUPPORTED,
                                     Key |-> STR_UNSUPPORTED,
                                     SourceString |-> STR_UNSUPPORTED]))
                   : historyType \in {ReadU8(b, flags.p)} } : TRUE
          : flags \in {ReadU32(b, q)} } : TRUE
      : q \in {IF raw THEN p ELSE Skip(p, 1)} } : TRUE

\* readDynamicActor
readDynamicActor(b, p) ==
    CHOOSE out \in {
        IF uniqueID.st # "ok" THEN Wrap(uniqueID, "readDynamicActor: ")
        ELSE CHOOSE out \in {
                 IF transform.st # "ok"
                 THEN Wrap(transform, "readDynamicActor: ")
                 ELSE CHOOSE out \in {
                          IF classPath.st # "ok"
                          THEN Wrap(classPath, "readDynamicActor: ")
                          ELSE Ok(classPath.p, [UniqueID |-> uniqueID.v,
                                                Transform |-> transform.v,
                                                ClassPath |-> classPath.v])
                        : classPath \in {ReadFTopLevelAssetPath(b, transform.p)} } : TRUE
               : transform \in {ReadFTransform(b, uniqueID.p)} } : TRUE
      : uniqueID \in {ReadBytes(b, p, 8)} } : TRUE

RECURSIVE getPropertyValue(_, _, _, _, _, _)
RECURSIVE readProperty(_, _, _)
RECURSIVE readProperties(_, _, _)
RECURSIVE readArrayProperty(_, _, _, _)
RECURSIVE readStructPropertyData(_, _, _, _)
RECURSIVE readStructProperty(_, _, _, _, _)
RECURSIVE readMapProperty(_, _, _)
RECURSIVE readPersistenceContainer(_)
RECURSIVE readActor(_)
RECURSIVE readSaveData(_, _, _, _)

\* The loop of readArrayProperty over the elements of a struct array.
RECURSIVE ArrayStructItems(_, _, _, _, _, _, _)
ArrayStructItems(b, p, header, varSize, saveData, n, items) ==
    IF n = 0 THEN Ok(p, items)
    ELSE CHOOSE out \in {
             IF value.st # "ok" THEN value
             ELSE ArrayStructItems(b, value.p, header, varSize, saveData, n - 1,
                      Append(items, [k |-> "StructProperty",
                                     Name |-> header.ElementType,
                                     Value |-> value.v,
                                     GUID |-> header.GUID,
                                     Size |-> varSize]))
           : value \in {readStructPropertyData(b, p, header.ElementType, saveData)} } : TRUE

\* The loop of readArrayProperty giving the elements read so far when an
\* element cannot be read.
RECURSIVE ArrayItemsPartial(_, _, _, _, _, _, _)
ArrayItemsPartial(b, p, elementsType, varSize, saveData, n, items) ==
    IF n = 0 THEN Ok(p, items)
    ELSE CHOOSE out \in {
             IF elementValue.st # "ok" THEN Ok(p, items)
             ELSE ArrayItemsPartial(b, elementValue.p, elementsType, varSize, saveData,
                                    n - 1, Append(items, elementValue.v))
           : elementValue \in {getPropertyValue(b, p, elementsType, varSize, saveData, TRUE)} } : TRUE

\* The loop of readArrayProperty over the elements of any other array.
RECURSIVE ArrayItems(_, _, _, _, _, _, _)
ArrayItems(b, p, elementsType, varSize, saveData, n, items) ==
    IF n = 0 THEN Ok(p, items)
    ELSE CHOOSE out \in {
             IF elementValue.st # "ok" THEN elementValue
             ELSE ArrayItems(b, elementValue.p, elementsType, varSize, saveData,
                             n - 1, Append(items, elementValue.v))
           : elementValue \in {getPropertyValue(b, p, elementsType, varSize, saveData, TRUE)} } : TRUE

readArrayProperty(b, p, saveData, varSize) ==
    CHOOSE out \in {
        IF elementsType.st # "ok" THEN elementsType
        ELSE CHOOSE out \in {
                 IF arrayLength.st # "ok" THEN arrayLength
                 ELSE IF elementsType.v = STR_StructProperty
                 THEN CHOOSE out \in {
                          IF header.st # "ok" THEN header
                          ELSE CHOOSE out \in {
                                   IF items.st # "ok" THEN items
                                   ELSE Ok(items.p, [k |-> "ArrayStructProperty",
                                                     Size |-> header.v.Size,
                                                     Count |-> arrayLength.v,
                                                     Items |-> items.v,
                                                     ElementType |-> header.v.ElementType,
                                                     GUID |-> header.v.GUID])
                                 : items \in {ArrayStructItems(b, header.p, header.v, varSize,
                                                               saveData, arrayLength.v, <<>>)} } : TRUE
                        : header \in {readArrayStructHeader(b, arrayLength.p, saveData)} } : TRUE
                 ELSE CHOOSE out \in {
                          IF items.st # "ok" THEN items
                          ELSE Ok(items.p, [k |-> "ArrayProperty",
                                            Count |-> arrayLength.v,
                                            Items |-> items.v,
                                            ElementType |-> elementsType.v])
                        : items \in {ArrayItems(b, arrayLength.p, elementsType.v, varSize,
                                                saveData, arrayLength.v, <<>>)} } : TRUE
               : arrayLength \in {ReadU32(b, Skip(elementsType.p, 1))} } : TRUE
      : elementsType \in {readName(b, p, saveData)} } : TRUE

\* The loop of readMapProperty over the entries.
RECURSIVE MapValues(_, _, _, _, _, _, _)
MapValues(b, p, keyType, valueType, saveData, n, values) ==
    IF n <= 0 THEN Ok(p, values)
    ELSE CHOOSE out \in {
             IF key.st # "ok" THEN Wrap(key, "readMapProperty: ")
             ELSE CHOOSE out \in {
                      IF value.st # "ok" THEN Wrap(value, "readMapProperty: ")
                      ELSE MapValues(b, value.p, keyType, valueType, saveData, n - 1,
                                     Append(values, [Key |-> key.v, Value |-> value.v]))
                    : value \in {getPropertyValue(b, key.p, valueType, 0, saveData, TRUE)} } : TRUE
           : key \in {getPropertyValue(b, p, keyType, 0, saveData, TRUE)} } : TRUE

readMapProperty(b, p, saveData) ==
    CHOOSE out \in {
        IF keyType.st # "ok" THEN Wrap(keyType, "readMapProperty: ")
        ELSE CHOOSE out \in {
                 IF valueType.st # "ok" THEN Wrap(valueType, "readMapProperty: ")
                 ELSE CHOOSE out \in {
                          IF mapLength.st # "ok" THEN Wrap(mapLength, "readMapProperty: ")
                          ELSE IF mapLength.v < 0
                          THEN Panic(mapLength.p, "makeslice: len out of range")
                          ELSE CHOOSE out \in {
                                   IF values.st # "ok" THEN values
                                   ELSE Ok(values.p, [k |-> "MapProperty",
                                                      KeyType |-> keyType.v,
                                                      ValueType |-> valueType.v,
                                                      Values |-> values.v])
                                 : values \in {MapValues(b, mapLength.p, keyType.v, valueType.v,
                                                         saveData, mapLength.v, <<>>)} } : TRUE
                        : mapLength \in {ReadI32(b, Skip(valueType.p, 5))} } : TRUE
               : valueType \in {readName(b, keyType.p, saveData)} } : TRUE
      : keyType \in {readName(b, p, saveData)} } : TRUE

\* The nil interface value, a nil *Property, a nil pointer field.
NilValue == [k |-> "nil"]
NilProperty == [nil |-> TRUE]
NilPtr == [nil |-> TRUE, v |-> <<>>]
PtrTo(x) == [nil |-> FALSE, v |-> x]

\* SaveData{}, Actor{}
ZeroSaveData ==
    [PackageVersion |-> NilPtr, SaveGameClassPath |-> NilPtr,
     NameTableOffset |-> Zeros(8), NamesTable |-> <<>>,
     ObjectsOffset |-> Zeros(8), Objects |-> <<>>, Version |-> 0]

ZeroActor == [Transform |-> NilPtr, Archive |-> ZeroSaveData, DynamicData |-> NilPtr]

\* The blob read as an archive under the other class path.
BlobIsArchiveOther(saveData) ==
    saveData.SaveGameClassPath.v.Path = REMNANT_SAVE_GAME

\* The condition on which a PersistenceBlob is read as an archive: the
\* class path of saveData, whatever the blob starts with.
BlobIsArchive(saveData) ==
    saveData.SaveGameClassPath.v.Path = REMNANT_SAVE_GAME_PROFILE

\* The loops of the container branch of readStructPropertyData.
RECURSIVE ActorInfoLoop(_, _, _, _)
ActorInfoLoop(pb, p, n, actorInfo) ==
    IF n = 0 THEN Ok(p, actorInfo)
    ELSE CHOOSE out \in {
             IF info.st # "ok" THEN info
             ELSE ActorInfoLoop(pb, info.p, n - 1, Append(actorInfo, info.v))
           : info \in {ReadFInfo(pb, p)} } : TRUE

RECURSIVE DestroyedLoop(_, _, _, _)
DestroyedLoop(pb, p, n, destroyed) ==
    IF n = 0 THEN Ok(p, destroyed)
    ELSE CHOOSE out \in {
             IF id.st # "ok" THEN id
             ELSE DestroyedLoop(pb, id.p, n - 1, Append(destroyed, id.v))
           : id \in {ReadBytes(pb, p, 8)} } : TRUE

RECURSIVE ActorsLoop(_, _, _, _)
ActorsLoop(pb, actorInfo, i, actors) ==
    IF i > Len(actorInfo) THEN Ok(0, actors)
    ELSE CHOOSE out \in {
             IF actorBytes.st # "ok" THEN actorBytes
             ELSE CHOOSE out \in {
                      IF actor.st # "ok" THEN actor
                      ELSE ActorsLoop(pb, actorInfo, i + 1,
                                      (actorInfo[i].UniqueID :> actor.v) @@ actors)
                    : actor \in {readActor(actorBytes.v)} } : TRUE
           : actorBytes \in {RawRead(pb, actorInfo[i].Offset,
                                     actorInfo[i].Size)} } : TRUE

RECURSIVE DynamicLoop(_, _, _, _)
DynamicLoop(pb, p, n, actors) ==
    IF n = 0 THEN Ok(p, actors)
    ELSE CHOOSE out \in {
      IF dynamicActor.st # "ok" THEN dynamicActor
      ELSE CHOOSE out \in {
        DynamicLoop(pb, dynamicActor.p, n - 1,
            (dynamicActor.v.UniqueID :>
                 [actor EXCEPT !.DynamicData = PtrTo(dynamicActor.v)]) @@ actors)
        : actor \in {IF dynamicActor.v.UniqueID \in DOMAIN actors
                     THEN actors[dynamicActor.v.UniqueID]
                     ELSE ZeroActor} } : TRUE
      : dynamicActor \in {readDynamicActor(pb, p)} } : TRUE

\* The index of a persistence container: the version, the two offsets, the
\* actor infos and the destroyed ids. pb is the buffer of persistenceReader.
readPersistenceIndex(pb) ==
    CHOOSE out \in {
        IF version.st # "ok" THEN version
        ELSE CHOOSE out \in {
          IF indexOffset.st # "ok" THEN indexOffset
          ELSE CHOOSE out \in {
            IF dynamicOffset.st # "ok" THEN dynamicOffset
            ELSE CHOOSE out \in {
              IF infoCount.st # "ok" THEN infoCount
              ELSE CHOOSE out \in {
                IF actorInfo.st # "ok" THEN actorInfo
                ELSE CHOOSE out \in {
                  IF destroyedCount.st # "ok" THEN destroyedCount
                  ELSE CHOOSE out \in {
                    IF destroyed.st # "ok" THEN destroyed
                    ELSE Ok(destroyed.p, [Version |-> version.v,
                                          DynamicOffset |-> dynamicOffset.v,
                                          ActorInfo |-> actorInfo.v,
                                          Destroyed |-> destroyed.v])
                    : destroyed \in {DestroyedLoop(pb, destroyedCount.p,
                                                   destroyedCount.v, <<>>)} } : TRUE
                  : destroyedCount \in {ReadU32(pb, actorInfo.p)} } : TRUE
                : actorInfo \in {ActorInfoLoop(pb, infoCount.p, infoCount.v,
                                               <<>>)} } : TRUE
              : infoCount \in {ReadU32(pb, indexOffset.v)} } : TRUE
            : dynamicOffset \in {ReadU32(pb, indexOffset.p)} } : TRUE
          : indexOffset \in {ReadU32(pb, version.p)} } : TRUE
      : version \in {ReadU32(pb, 0)} } : TRUE

\* readStructPropertyData, case "PersistenceBlob", the blob not an archive.
readPersistenceContainer(pb) ==
    CHOOSE out \in {
        IF index.st # "ok" THEN index
        ELSE CHOOSE out \in {
          IF actors.st # "ok" THEN actors
          ELSE CHOOSE out \in {
            IF dynamicCount.st # "ok" THEN dynamicCount
            ELSE CHOOSE out \in {
              IF all.st # "ok" THEN all
              ELSE Ok(all.p, [k |-> "PersistenceContainer",
                              Version |-> index.v.Version,
                              Destroyed |-> index.v.Destroyed,
                              Actors |-> all.v])
              : all \in {DynamicLoop(pb, dynamicCount.p, dynamicCount.v,
                                     actors.v)} } : TRUE
            : dynamicCount \in {ReadU32(pb, index.v.DynamicOffset)} } : TRUE
          : actors \in {ActorsLoop(pb, index.v.ActorInfo, 1, <<>>)} } : TRUE
      : index \in {readPersistenceIndex(pb)} } : TRUE

readActor(ab) ==
    CHOOSE out \in {
        IF hasTransform.st # "ok" THEN Wrap(hasTransform, "readActor: ")
        ELSE CHOOSE out \in {
                 IF transform.st # "ok" THEN Wrap(transform, "readActor: ")
                 ELSE CHOOSE out \in {
                          IF archive.st # "ok" THEN Wrap(archive, "readActor: ")
                          ELSE Ok(archive.p, [Transform |-> PtrTo(transform.v),
                                              Archive |-> archive.v,
                                              DynamicData |-> NilPtr])
                        : archive \in {readSaveData(ab, transform.p, FALSE, FALSE)} } : TRUE
               : transform \in {IF hasTransform.v # 0
                                THEN ReadFTransform(ab, hasTransform.p)
                                ELSE Ok(hasTransform.p, Zeros(80))} } : TRUE
      : hasTransform \in {ReadU32(ab, 0)} } : TRUE

readStructPropertyData(b, p, structName, saveData) ==
    CASE structName = STR_SoftClassPath -> readStrProperty(b, p, TRUE)
      [] structName = STR_SoftObjectPath -> readStrProperty(b, p, TRUE)
      [] structName = STR_Timespan -> readNumProperty(b, p, 8, TRUE)
      [] structName = STR_Guid ->
            CHOOSE out \in {
                IF guid.st # "ok" THEN guid ELSE Ok(guid.p, [k |-> "FGuid", raw |-> guid.v])
              : guid \in {ReadGuid(b, p)} } : TRUE
      [] structName = STR_Vector ->
            CHOOSE out \in {
                IF v.st # "ok" THEN v ELSE Ok(v.p, [k |-> "FVector", raw |-> v.v])
              : v \in {ReadFVector(b, p)} } : TRUE
      [] structName = STR_DateTime -> readNumProperty(b, p, 8, TRUE)
      [] structName = STR_PersistenceBlob ->
            CHOOSE out \in {
                IF persistenceSize.st # "ok" THEN persistenceSize
                ELSE CHOOSE out \in {
                         IF persistenceBytes.st # "ok" THEN persistenceBytes
                         ELSE IF saveData.SaveGameClassPath.nil
                         THEN Panic(persistenceBytes.p, "nil pointer dereference")
                         ELSE IF BlobIsArchive(saveData)
                         THEN CHOOSE out \in {
                                  IF archive.st # "ok" THEN At(archive, persistenceBytes.p)
                                  ELSE Ok(persistenceBytes.p,
                                          [k |-> "PersistenceBlob", Archive |-> archive.v])
                                : archive \in {readSaveData(persistenceBytes.v, 0, TRUE, FALSE)} } : TRUE
                         ELSE At(readPersistenceContainer(persistenceBytes.v),
                                 persistenceBytes.p)
                       : persistenceBytes \in {RawRead(b, persistenceSize.p, persistenceSize.v)} } : TRUE
              : persistenceSize \in {ReadU32(b, p)} } : TRUE
      [] OTHER ->
            CHOOSE out \in {
                IF properties.st # "ok" THEN properties
                ELSE Ok(properties.p, [k |-> "Properties", v |-> properties.v])
              : properties \in {readProperties(b, p, saveData)} } : TRUE

readStructProperty(b, p, saveData, varSize, raw) ==
    IF raw
    THEN CHOOSE out \in {
             IF guid.st # "ok" THEN guid
             ELSE Ok(guid.p, [k |-> "StructReference", GUID |-> guid.v])
           : guid \in {ReadGuid(b, p)} } : TRUE
    ELSE CHOOSE out \in {
             IF structName.st # "ok" THEN structName
             ELSE CHOOSE out \in {
                      IF guid.st # "ok" THEN guid
                      ELSE CHOOSE out \in {
                               IF value.st # "ok" THEN value
                               ELSE Ok(value.p, [k |-> "StructProperty",
                                                  Name |-> structName.v,
                                                  GUID |-> guid.v,
                                                  Value |-> value.v,
                                                  Size |-> varSize])
                             : value \in {readStructPropertyData(b, Skip(guid.p, 1),
                                                                 structName.v, saveData)} } : TRUE
                    : guid \in {ReadGuid(b, structName.p)} } : TRUE
           : structName \in {readName(b, p, saveData)} } : TRUE

\* An unknown type accepted with no value instead of refused.
UnsupportedTypeAccepted(p, varType) == Ok(p, NilValue)

\* getPropertyValue, the default case: the error carries the type name.
UnsupportedType(p, varType) ==
    [st |-> "err", p |-> p, v |-> varType,
     msg |-> "property type is not supported yet"]

getPropertyValue(b, p, varType, varSize, saveData, raw) ==
    CASE varType = STR_IntProperty -> readNumProperty(b, p, 4, raw)
      [] varType = STR_Int16Property -> readNumProperty(b, p, 2, raw)
      [] varType = STR_Int64Property -> readNumProperty(b, p, 8, raw)
      [] varType = STR_UInt64Property -> readNumProperty(b, p, 8, raw)
      [] varType = STR_FloatProperty -> readNumProperty(b, p, 4, raw)
      [] varType = STR_DoubleProperty -> readNumProperty(b, p, 8, raw)
      [] varType = STR_UInt16Property -> readNumProperty(b, p, 2, raw)
      [] varType = STR_UInt32Property -> readNumProperty(b, p, 4, raw)
      [] varType = STR_SoftClassPath -> readSoftPath(b, p, raw)
      [] varType = STR_SoftObjectProperty -> readSoftPath(b, p, raw)
      [] varType = STR_BoolProperty -> readBoolProperty(b, p, raw)
      [] varType = STR_MapProperty ->
            IF raw THEN Fatal(p, "Raw map property is not supported yet")
            ELSE readMapProperty(b, p, saveData)
      [] varType = STR_EnumProperty -> readEnumProperty(b, p, saveData)
      [] varType = STR_StrProperty -> readStrProperty(b, p, raw)
      [] varType = STR_TextProperty -> readTextProperty(b, p, raw)
      [] varType = STR_NameProperty -> readNameProperty(b, p, saveData, raw)
      [] varType = STR_ArrayProperty -> readArrayProperty(b, p, saveData, varSize)
      [] varType = STR_StructProperty -> readStructProperty(b, p, saveData, varSize, raw)
      [] varType = STR_ObjectProperty -> readObjectProperty(b, p, saveData, raw)
      [] varType = STR_ByteProperty -> readByteProperty(b, p, saveData, raw)
      [] varType = STR_None -> Ok(p, NilValue)
      [] OTHER -> UnsupportedType(p, varType)

\* varSize+19 in uint32, from the four bytes of varSize.
FowSize(x) ==
    IF x[4] = 255 /\ x[3] = 255 /\ x[2] = 255 /\ x[1] >= 237 THEN x[1] - 237
    ELSE IF U32Of(x) >= MaxInt31 - 19 THEN MaxInt31
    ELSE U32Of(x) + 19

\* readProperty up to the value: the name, the type, the size and the index.
\* The terminator name ends it with the nil property.
readPropertyTag(b, p, saveData) ==
    CHOOSE out \in {
        IF varName.st # "ok" THEN Wrap(varName, "failed to read variable name index: ")
        ELSE IF varName.v = STR_None THEN Ok(varName.p, NilProperty)
        ELSE CHOOSE out \in {
          IF varType.st # "ok"
          THEN Wrap(varType, "failed to read variable type index: ")
          ELSE CHOOSE out \in {
            IF varSize.st # "ok" THEN Wrap(varSize, "failed to read variable size: ")
            ELSE CHOOSE out \in {
              IF index.st # "ok" THEN index
              ELSE Ok(index.p, [nil |-> FALSE,
                                Name |-> varName.v,
                                Type |-> varType.v,
                                Index |-> index.v,
                                Size |-> varSize.v,
                                Value |-> NilValue])
              : index \in {ReadU32(b, varSize.p)} } : TRUE
            : varSize \in {ReadBytes(b, varType.p, 4)} } : TRUE
          : varType \in {readName(b, varName.p, saveData)} } : TRUE
      : varName \in {readName(b, p, saveData)} } : TRUE

readProperty(b, p, saveData) ==
    CHOOSE out \in {
        IF tag.st # "ok" \/ tag.v.nil THEN tag
        ELSE CHOOSE out \in {
          IF value.st # "ok" THEN value
          ELSE Ok(value.p, [tag.v EXCEPT !.Size = U32Of(@), !.Value = value.v])
          : value \in {IF tag.v.Name = STR_FowVisitedCoordinates
                       THEN CHOOSE out \in {
                                IF d.st # "ok" THEN d
                                ELSE Ok(d.p, [k |-> "bytes", v |-> d.v])
                              : d \in {RawRead(b, tag.p, FowSize(tag.v.Size))} } : TRUE
                       ELSE Wrap(getPropertyValue(b, tag.p, tag.v.Type,
                                                  U32Of(tag.v.Size), saveData, FALSE),
                                 "failed to read variable data: ")} } : TRUE
      : tag \in {readPropertyTag(b, p, saveData)} } : TRUE

\* The list returned with the cursor left before the terminator name.
RECURSIVE readPropertiesPeek(_, _, _, _)
readPropertiesPeek(b, p, saveData, properties) ==
    CHOOSE out \in {
        IF property.st # "ok" THEN property
        ELSE IF property.v.nil THEN Ok(p, properties)
        ELSE readPropertiesPeek(b, property.p, saveData, Append(properties, property.v))
      : property \in {readProperty(b, p, saveData)} } : TRUE

\* The loop of readProperties.
RECURSIVE readPropertiesFrom(_, _, _, _)
readPropertiesFrom(b, p, saveData, properties) ==
    CHOOSE out \in {
        IF property.st # "ok" THEN property
        ELSE IF property.v.nil THEN Ok(property.p, properties)
        ELSE readPropertiesFrom(b, property.p, saveData, Append(properties, property.v))
      : property \in {readProperty(b, p, saveData)} } : TRUE

readProperties(b, p, saveData) == readPropertiesFrom(b, p, saveData, <<>>)

-----------------------------------------------------------------------------
(* The archive reader.                                                     *)

\* UObject{}, UObjectLoadedData{}
ZeroLoadedData == [Name |-> <<>>, OuterID |-> 0]

ZeroUObject ==
    [ObjectID |-> 0, WasLoaded |-> FALSE, ObjectPath |-> <<>>,
     LoadedData |-> NilPtr, Properties |-> <<>>, Components |-> NilPtr]

\* r.Seek(int64(offset), io.SeekStart), offset a uint64 given by its bytes;
\* p is the cursor the reader keeps when the seek fails.
SeekStart(x, p) ==
    IF x[8] >= 128 THEN Err(p, "bytes.Reader.Seek: negative position")
    ELSE Ok(U64Of(x), <<>>)

RECURSIVE NamesLoop(_, _, _, _)
NamesLoop(b, p, n, names) ==
    IF n = 0 THEN Ok(p, names)
    ELSE CHOOSE out \in {
             IF stringData.st # "ok" THEN stringData
             ELSE NamesLoop(b, stringData.p, n - 1, Append(names, stringData.v))
           : stringData \in {ReadFString(b, p)} } : TRUE

\* The names a decode of this process left behind, were the names table
\* built in a package-level slice that is never reset.
LeftoverNames ==
    IF entry # "twice" THEN <<>>
    ELSE IF pc[1] = "done" /\ ret[1].st = "ok" THEN ret[1].v.Data.NamesTable
    ELSE IF pc[2] = "done" /\ ret[2].st = "ok" THEN ret[2].v.Data.NamesTable
    ELSE <<>>

readNamesTableLeftover(b, p, namesTableOffset) ==
    CHOOSE out \in {
        IF at.st # "ok" THEN at
        ELSE CHOOSE out \in {
                 IF stringsNum.st # "ok" \/ stringsNum.v < 0 THEN stringsNum
                 ELSE NamesLoop(b, stringsNum.p, stringsNum.v, LeftoverNames)
               : stringsNum \in {ReadI32(b, at.p)} } : TRUE
      : at \in {SeekStart(namesTableOffset, p)} } : TRUE

readNamesTable(b, p, namesTableOffset) ==
    CHOOSE out \in {
        IF at.st # "ok" THEN at
        ELSE CHOOSE out \in {
                 IF stringsNum.st # "ok" THEN stringsNum
                 ELSE IF stringsNum.v < 0
                 THEN Panic(stringsNum.p, "makeslice: len out of range")
                 ELSE NamesLoop(b, stringsNum.p, stringsNum.v, <<>>)
               : stringsNum \in {ReadI32(b, at.p)} } : TRUE
      : at \in {SeekStart(namesTableOffset, p)} } : TRUE

VarTypeNames(t) ==
    CASE t = 0 -> STR_None
      [] t = 1 -> STR_BoolProperty
      [] t = 2 -> STR_IntProperty
      [] t = 3 -> STR_FloatProeprty
      [] t = 4 -> STR_NameProperty
      [] OTHER -> <<>>

readVariable(b, p, saveData) ==
    CHOOSE out \in {
        IF name.st # "ok" THEN Wrap(name, "failed to read variable name index: ")
        ELSE IF name.v = STR_None THEN Ok(name.p, NilProperty)
        ELSE CHOOSE out \in {
                 LET prop(value) == [nil |-> FALSE, Name |-> name.v,
                                     Type |-> VarTypeNames(varTypeEnumValue.v),
                                     Index |-> 0, Size |-> 0, Value |-> value]
                 IN IF varTypeEnumValue.st # "ok"
                    THEN Wrap(varTypeEnumValue, "failed to read variable type: ")
                    ELSE IF varTypeEnumValue.v \in {1, 2, 3}
                    THEN CHOOSE out \in {
                             IF value.st # "ok"
                             THEN Wrap(value, "failed to read variable value: ")
                             ELSE IF varTypeEnumValue.v = 1
                             THEN Ok(value.p, prop([k |-> "bool", v |-> (value.v # Zeros(4))]))
                             ELSE Ok(value.p, prop([k |-> "num", raw |-> value.v]))
                           : value \in {ReadBytes(b, varTypeEnumValue.p, 4)} } : TRUE
                    ELSE IF varTypeEnumValue.v = 4
                    THEN CHOOSE out \in {
                             IF value.st # "ok"
                             THEN Wrap(value, "failed to read variable value: ")
                             ELSE Ok(value.p, prop([k |-> "str", v |-> value.v]))
                           : value \in {readName(b, varTypeEnumValue.p, saveData)} } : TRUE
                    ELSE Err(varTypeEnumValue.p, "unknown variable type")
               : varTypeEnumValue \in {ReadU8(b, name.p)} } : TRUE
      : name \in {readName(b, p, saveData)} } : TRUE

\* The loop of readVariables: *property of a nil property is a nil
\* dereference.
RECURSIVE VariablesLoop(_, _, _, _, _)
VariablesLoop(b, p, saveData, n, properties) ==
    IF n = 0 THEN Ok(p, properties)
    ELSE CHOOSE out \in {
             IF property.st # "ok" THEN Wrap(property, "failed to read property: ")
             ELSE IF property.v.nil THEN Panic(property.p, "nil pointer dereference")
             ELSE VariablesLoop(b, property.p, saveData, n - 1,
                                Append(properties, property.v))
           : property \in {readVariable(b, p, saveData)} } : TRUE

readVariables(b, p, saveData) ==
    CHOOSE out \in {
        IF name.st # "ok" THEN Wrap(name, "failed to read variable name index: ")
        ELSE CHOOSE out \in {
                 IF empty.st # "ok" THEN Wrap(empty, "failed to read empty value: ")
                 ELSE CHOOSE out \in {
                          IF arrayLength.st # "ok"
                          THEN Wrap(arrayLength, "failed to read array length: ")
                          ELSE CHOOSE out \in {
                                   IF properties.st # "ok" THEN properties
                                   ELSE Ok(properties.p, [k |-> "Variables",
                                                          Name |-> name.v,
                                                          Properties |-> properties.v])
                                 : properties \in {VariablesLoop(b, arrayLength.p, saveData,
                                                                 arrayLength.v, <<>>)} } : TRUE
                        : arrayLength \in {ReadU32(b, empty.p)} } : TRUE
               : empty \in {ReadBytes(b, name.p, 8)} } : TRUE
      : name \in {readName(b, p, saveData)} } : TRUE

\* The end of a body of declared length `length` that started at startPos,
\* the cursor at currentPos: the bytes left of the body are read into a
\* slice of that length.
ReadToBoundary(b, startPos, length, currentPos) ==
    IF currentPos - startPos = length THEN Ok(currentPos, <<>>)
    ELSE IF length - (currentPos - startPos) < 0
    THEN Panic(currentPos, "makeslice: len out of range")
    ELSE CHOOSE out \in {
             IF d.st # "ok" THEN d ELSE Ok(d.p, <<>>)
           : d \in {RawReadN(b, currentPos, length - (currentPos - startPos))} } : TRUE

\* The component keys whose body is read by readVariables.
\* The keys of a variables block without the misspelt one.
VariablesKeysSpelt ==
    {STR_GlobalVariables, STR_Variables, STR_Variable, STR_PersistenceKeys,
     STR_PersistenceKeys1}

VariablesKeys ==
    {STR_GlobalVariables, STR_Variables, STR_Variable, STR_PersistenceKeys,
     STR_PersistanceKeys1, STR_PersistenceKeys1}

RECURSIVE ComponentsLoop(_, _, _, _, _)
ComponentsLoop(b, p, saveData, n, components) ==
    IF n = 0 THEN Ok(p, components)
    ELSE CHOOSE out \in {
      IF componentKey.st # "ok" THEN componentKey
      ELSE CHOOSE out \in {
        IF objectLength.st # "ok" THEN objectLength
        ELSE CHOOSE out \in {
          IF properties.st # "ok" THEN properties
          ELSE CHOOSE out \in {
            IF end.st # "ok" THEN end
            ELSE ComponentsLoop(b, end.p, saveData, n - 1,
                     Append(components, [ComponentKey |-> componentKey.v,
                                         Properties |-> properties.v]))
            : end \in {ReadToBoundary(b, objectLength.p, objectLength.v,
                                      properties.p)} } : TRUE
          : properties \in {
                IF componentKey.v \in VariablesKeys
                THEN CHOOSE out \in {
                         IF variables.st # "ok" THEN variables
                         ELSE Ok(variables.p,
                                 <<[nil |-> FALSE, Name |-> componentKey.v,
                                    Type |-> componentKey.v, Index |-> 0,
                                    Size |-> 0, Value |-> variables.v]>>)
                       : variables \in {readVariables(b, objectLength.p,
                                                      saveData)} } : TRUE
                ELSE readProperties(b, objectLength.p, saveData)} } : TRUE
        : objectLength \in {ReadU32(b, componentKey.p)} } : TRUE
      : componentKey \in {ReadFString(b, p)} } : TRUE

readComponents(b, p, saveData) ==
    CHOOSE out \in {
        IF componentCount.st # "ok" THEN componentCount
        ELSE ComponentsLoop(b, componentCount.p, saveData, componentCount.v, <<>>)
      : componentCount \in {ReadU32(b, p)} } : TRUE

\* readObjectData: the value is the object with its properties set.
readObjectData(b, p, object, saveData) ==
    CHOOSE out \in {
        IF length.st # "ok" THEN length
        ELSE IF length.v > 0
        THEN CHOOSE out \in {
                 IF properties.st # "ok" THEN properties
                 ELSE CHOOSE out \in {
                          IF end.st # "ok" THEN end
                          ELSE Ok(end.p, [object EXCEPT !.Properties = properties.v])
                        : end \in {ReadToBoundary(b, length.p, length.v,
                                                  properties.p)} } : TRUE
               : properties \in {readProperties(b, length.p, saveData)} } : TRUE
        ELSE Ok(length.p, object)
      : length \in {ReadU32(b, p)} } : TRUE

\* The class path taken as the path of every loaded object, whatever its
\* index.
readObjectAnyIndex(b, p, saveData, objectID) ==
    CHOOSE out \in {
      IF wasLoadedByte.st # "ok" THEN wasLoadedByte
      ELSE CHOOSE out \in {
        IF objectPath.st # "ok" THEN objectPath
        ELSE CHOOSE out \in {
          IF loadedData.st # "ok" THEN loadedData
          ELSE Ok(loadedData.p,
                  [ObjectID |-> objectID, WasLoaded |-> (wasLoadedByte.v # 0),
                   ObjectPath |-> objectPath.v,
                   LoadedData |-> PtrTo(loadedData.v),
                   Properties |-> <<>>, Components |-> NilPtr])
          : loadedData \in {
                IF wasLoadedByte.v = 0
                THEN CHOOSE out \in {
                       IF objectName.st # "ok" THEN objectName
                       ELSE CHOOSE out \in {
                         IF outerID.st # "ok" THEN outerID
                         ELSE Ok(outerID.p, [Name |-> objectName.v,
                                             OuterID |-> outerID.v])
                         : outerID \in {ReadU32(b, objectName.p)} } : TRUE
                       : objectName \in {readName(b, objectPath.p,
                                                  saveData)} } : TRUE
                ELSE Ok(objectPath.p, ZeroLoadedData)} } : TRUE
        : objectPath \in {
              IF wasLoadedByte.v # 0 /\ ~saveData.SaveGameClassPath.nil
              THEN Ok(wasLoadedByte.p, saveData.SaveGameClassPath.v.Path)
              ELSE ReadFString(b, wasLoadedByte.p)} } : TRUE
      : wasLoadedByte \in {ReadU8(b, p)} } : TRUE

readObject(b, p, saveData, objectID) ==
    CHOOSE out \in {
      IF wasLoadedByte.st # "ok" THEN wasLoadedByte
      ELSE CHOOSE out \in {
        IF objectPath.st # "ok" THEN objectPath
        ELSE CHOOSE out \in {
          IF loadedData.st # "ok" THEN loadedData
          ELSE Ok(loadedData.p,
                  [ObjectID |-> objectID, WasLoaded |-> (wasLoadedByte.v # 0),
                   ObjectPath |-> objectPath.v,
                   LoadedData |-> PtrTo(loadedData.v),
                   Properties |-> <<>>, Components |-> NilPtr])
          : loadedData \in {
                IF wasLoadedByte.v = 0
                THEN CHOOSE out \in {
                       IF objectName.st # "ok" THEN objectName
                       ELSE CHOOSE out \in {
                         IF outerID.st # "ok" THEN outerID
                         ELSE Ok(outerID.p, [Name |-> objectName.v,
                                             OuterID |-> outerID.v])
                         : outerID \in {ReadU32(b, objectName.p)} } : TRUE
                       : objectName \in {readName(b, objectPath.p,
                                                  saveData)} } : TRUE
                ELSE Ok(objectPath.p, ZeroLoadedData)} } : TRUE
        : objectPath \in {
              IF wasLoadedByte.v # 0 /\ objectID = 0
                 /\ ~saveData.SaveGameClassPath.nil
              THEN Ok(wasLoadedByte.p, saveData.SaveGameClassPath.v.Path)
              ELSE ReadFString(b, wasLoadedByte.p)} } : TRUE
      : wasLoadedByte \in {ReadU8(b, p)} } : TRUE

\* The first loop of readObjects. The table is allocated whole before the
\* loop; readObject does not look at it, so the model appends to it.
RECURSIVE ObjectsTableLoop(_, _, _, _, _)
ObjectsTableLoop(b, p, saveData, i, n) ==
    IF i >= n THEN Ok(p, saveData)
    ELSE CHOOSE out \in {
             IF object.st # "ok" THEN Wrap(object, "failed to read object: ")
             ELSE ObjectsTableLoop(b, object.p,
                      [saveData EXCEPT !.Objects = Append(@, object.v)], i + 1, n)
           : object \in {readObject(b, p, saveData, i)} } : TRUE

\* The second loop of readObjects.
RECURSIVE ObjectsDataLoop(_, _, _, _)
ObjectsDataLoop(b, p, saveData, n) ==
    IF n = 0 THEN Ok(p, saveData)
    ELSE CHOOSE out \in {
      IF objectID.st # "ok" THEN Wrap(objectID, "failed to read object id: ")
      ELSE IF objectID.v >= Len(saveData.Objects)
      THEN Panic(objectID.p, "index out of range")
      ELSE CHOOSE out \in {
        IF object.st # "ok" THEN Wrap(object, "failed to read object data: ")
        ELSE CHOOSE out \in {
          IF isActor.st # "ok" THEN Wrap(isActor, "failed to read isActor: ")
          ELSE CHOOSE out \in {
            IF components.st # "ok"
            THEN Wrap(components, "failed to read components: ")
            ELSE ObjectsDataLoop(b, components.p,
                     [saveData EXCEPT !.Objects[objectID.v + 1] =
                         IF isActor.v # 0
                         THEN [object.v EXCEPT !.Components = PtrTo(components.v)]
                         ELSE object.v],
                     n - 1)
            : components \in {IF isActor.v # 0
                              THEN readComponents(b, isActor.p, saveData)
                              ELSE Ok(isActor.p, <<>>)} } : TRUE
          : isActor \in {ReadU8(b, object.p)} } : TRUE
        : object \in {readObjectData(b, objectID.p,
                                     saveData.Objects[objectID.v + 1],
                                     saveData)} } : TRUE
      : objectID \in {ReadU32(b, p)} } : TRUE

\* The body of every object read as soon as its descriptor is, when the
\* object table holds the descriptors up to that object only.
RECURSIVE ObjectsInterleavedLoop(_, _, _, _, _, _)
ObjectsInterleavedLoop(b, tp, dp, saveData, i, n) ==
    IF i >= n THEN Ok(dp, saveData)
    ELSE CHOOSE out \in {
      IF object.st # "ok" THEN Wrap(object, "failed to read object: ")
      ELSE CHOOSE out \in {
        IF data.st # "ok" THEN data
        ELSE ObjectsInterleavedLoop(b, object.p, data.p, data.v, i + 1, n)
        : data \in {ObjectsDataLoop(b, dp,
                        [saveData EXCEPT !.Objects = Append(@, object.v)],
                        1)} } : TRUE
      : object \in {readObject(b, tp, saveData, i)} } : TRUE

readObjectsInterleaved(b, p, objectsTableOffset, objectsDataOffset, saveData) ==
    CHOOSE out \in {
      IF at.st # "ok" THEN at
      ELSE CHOOSE out \in {
        IF numUniqueObjects.st # "ok" \/ numUniqueObjects.v < 0
        THEN numUniqueObjects
        ELSE ObjectsInterleavedLoop(b, numUniqueObjects.p, objectsDataOffset,
                                    [saveData EXCEPT !.Objects = <<>>],
                                    0, numUniqueObjects.v)
        : numUniqueObjects \in {ReadI32(b, at.p)} } : TRUE
      : at \in {SeekStart(objectsTableOffset, p)} } : TRUE

\* readObjects: the value is saveData with its object table filled.
readObjects(b, p, objectsTableOffset, objectsDataOffset, saveData) ==
    CHOOSE out \in {
        IF at.st # "ok" THEN at
        ELSE CHOOSE out \in {
                 IF numUniqueObjects.st # "ok"
                 THEN Wrap(numUniqueObjects, "failed to read numUniqueClasses: ")
                 ELSE IF numUniqueObjects.v < 0
                 THEN Panic(numUniqueObjects.p, "makeslice: len out of range")
                 ELSE CHOOSE out \in {
                          IF table.st # "ok" THEN table
                          ELSE ObjectsDataLoop(b, objectsDataOffset, table.v,
                                               numUniqueObjects.v)
                        : table \in {ObjectsTableLoop(b, numUniqueObjects.p,
                                         [saveData EXCEPT !.Objects = <<>>],
                                         0, numUniqueObjects.v)} } : TRUE
               : numUniqueObjects \in {ReadI32(b, at.p)} } : TRUE
      : at \in {SeekStart(objectsTableOffset, p)} } : TRUE

\* readSaveData up to the end of the offsets: the value is the save data
\* with its header fields set, the cursor is objectsDataOffset.
readSaveDataHeader(b, p, hasPackageVersion, hasTopLevelAssetPath) ==
    CHOOSE out \in {
        IF packageVersion.st # "ok"
        THEN Wrap(packageVersion, "failed to read package version: ")
        ELSE CHOOSE out \in {
                 IF saveGameClassPath.st # "ok"
                 THEN Wrap(saveGameClassPath, "failed to read top level asset path: ")
                 ELSE CHOOSE out \in {
                          IF offsets.st # "ok" THEN offsets
                          ELSE Ok(offsets.p,
                                  [ZeroSaveData EXCEPT
                                      !.PackageVersion =
                                          IF hasPackageVersion
                                          THEN PtrTo(packageVersion.v) ELSE NilPtr,
                                      !.SaveGameClassPath =
                                          IF hasTopLevelAssetPath
                                          THEN PtrTo(saveGameClassPath.v) ELSE NilPtr,
                                      !.NameTableOffset = SubSeq(offsets.v, 1, 8),
                                      !.ObjectsOffset = SubSeq(offsets.v, 13, 20),
                                      !.Version = U32Of(SubSeq(offsets.v, 9, 12))])
                        : offsets \in {ReadBytes(b, saveGameClassPath.p, 20)} } : TRUE
               : saveGameClassPath \in {IF hasTopLevelAssetPath
                                        THEN ReadFTopLevelAssetPath(b, packageVersion.p)
                                        ELSE Ok(packageVersion.p, <<>>)} } : TRUE
      : packageVersion \in {IF hasPackageVersion THEN ReadBytes(b, p, 8)
                            ELSE Ok(p, <<>>)} } : TRUE

readSaveData(b, p, hasPackageVersion, hasTopLevelAssetPath) ==
    CHOOSE out \in {
        IF header.st # "ok" THEN header
        ELSE CHOOSE out \in {
                 IF names.st # "ok" THEN Wrap(names, "failed to read names table: ")
                 ELSE Wrap(readObjects(b, names.p, header.v.ObjectsOffset, header.p,
                                       [header.v EXCEPT !.NamesTable = names.v]),
                           "failed to read objects: ")
               : names \in {readNamesTable(b, header.p, header.v.NameTableOffset)} } : TRUE
      : header \in {readSaveDataHeader(b, p, hasPackageVersion,
                                       hasTopLevelAssetPath)} } : TRUE

ReadSaveArchive(b) ==
    CHOOSE out \in {
        IF header.st # "ok" THEN header
        ELSE CHOOSE out \in {
                 IF data.st # "ok" THEN data
                 ELSE Ok(data.p, [Header |-> header.v, Data |-> data.v])
               : data \in {readSaveData(b, header.p, TRUE, TRUE)} } : TRUE
      : header \in {ReadBytes(b, 0, 16)} } : TRUE

-----------------------------------------------------------------------------
(* Inputs of the archive specifications: encoders that write what the      *)
(* readers read, and the menus the initial states are drawn from.          *)

EncU16(i) == <<i % 256, i \div 256>>

\* An int32: -1 is FF FF FF FF.
EncI32(n) ==
    IF n >= 0 THEN LE32(n)
    ELSE LET m == n + 2147483647 + 1
         IN <<m % 256, (m \div 256) % 256, (m \div 65536) % 256,
              (m \div 16777216) + 128>>

EncU64(n) == LE32(n) \o <<0, 0, 0, 0>>
EncFString(str) == IF str = <<>> THEN LE32(0) ELSE LE32(Len(str) + 1) \o str \o <<0>>
EncFName(i) == EncU16(i)
EncFNameNum(i, n) == EncU16(i + HAS_NUMBER) \o EncI32(n)

RECURSIVE Flatten(_)
Flatten(ss) == IF ss = <<>> THEN <<>> ELSE Head(ss) \o Flatten(Tail(ss))

NAME_Health == <<72, 101, 97, 108, 116, 104>>
NAME_Slot == <<83, 108, 111, 116>>
NAME_Stats == <<83, 116, 97, 116, 115>>
NAME_EMode == <<69, 77, 111, 100, 101>>
PATH_A == <<47, 65>>
PATH_B == <<47, 66>>

\* The names table of the scope the property lists are read in.
PropNames ==
    <<STR_None, STR_IntProperty, STR_StrProperty, STR_NameProperty,
      STR_ObjectProperty, STR_BoolProperty, STR_ByteProperty, STR_EnumProperty,
      STR_TextProperty, STR_ArrayProperty, STR_StructProperty, STR_MapProperty,
      STR_Guid, STR_Vector, STR_Timespan, STR_DateTime, STR_SoftClassPath,
      STR_SoftObjectProperty, STR_SoftObjectPath, STR_Int16Property,
      STR_Int64Property, STR_UInt64Property, STR_FloatProperty,
      STR_DoubleProperty, STR_UInt16Property, STR_UInt32Property,
      STR_FowVisitedCoordinates, STR_FloatProeprty, NAME_Health, NAME_Slot,
      NAME_Stats, NAME_EMode>>

\* The index of a name in a names table.
IndexIn(table, name) == (CHOOSE i \in 1..Len(table) : table[i] = name) - 1
N(name) == IndexIn(PropNames, name)

PropObjects ==
    <<[ZeroUObject EXCEPT !.ObjectPath = PATH_A, !.WasLoaded = TRUE],
      [ZeroUObject EXCEPT !.ObjectPath = PATH_B, !.ObjectID = 1]>>

PropEnv ==
    [ZeroSaveData EXCEPT
        !.SaveGameClassPath = PtrTo([Path |-> REMNANT_SAVE_GAME, Name |-> <<>>]),
        !.NamesTable = PropNames,
        !.Objects = PropObjects]

\* A tagged property: name, type, size, index, payload.  good says that the
\* bytes are a whole property of a type the decoder reads; obj is the object
\* index of an ObjectProperty (-9 for any other property).
EncProp(name, type, payload) ==
    EncFName(N(name)) \o EncFName(N(type)) \o LE32(Len(payload)) \o LE32(0) \o payload

P(name, type, payload, good) ==
    [bytes |-> EncProp(name, type, payload), name |-> name, type |-> type,
     good |-> good, obj |-> -9]

\* A property named FowVisitedCoordinates: size + 19 bytes follow the header.
FowProp(type, size) ==
    [bytes |-> EncFName(N(STR_FowVisitedCoordinates)) \o EncFName(N(type))
                   \o LE32(size) \o LE32(0) \o [i \in 1..(size + 19) |-> i],
     name |-> STR_FowVisitedCoordinates, type |-> type, good |-> TRUE, obj |-> -9]

ObjProp(i) ==
    [P(NAME_Slot, STR_ObjectProperty, <<0>> \o EncI32(i), i \in {-1, 0, 1})
        EXCEPT !.obj = i]

G16 == <<1, 2, 3, 4, 5, 6, 7, 8, 9, 10, 11, 12, 13, 14, 15, 16>>
IntProp == P(NAME_Health, STR_IntProperty, <<0>> \o LE32(7), TRUE)
NoneName == EncFName(N(STR_None))
StatsProp ==
    P(NAME_Stats, STR_StructProperty,
      EncFName(N(NAME_Stats)) \o G16 \o <<0>> \o IntProp.bytes \o NoneName, TRUE)
NoneTypeProp == P(NAME_Health, STR_None, <<>>, TRUE)
UnknownProp == P(NAME_Health, STR_FloatProeprty, <<0, 1, 2, 3, 4>>, FALSE)

NumMenu ==
    { P(NAME_Health, t[1], <<0>> \o [i \in 1..t[2] |-> i], TRUE) :
        t \in { <<STR_Int16Property, 2>>, <<STR_Int64Property, 8>>,
                <<STR_UInt64Property, 8>>, <<STR_FloatProperty, 4>>,
                <<STR_DoubleProperty, 8>>, <<STR_UInt16Property, 2>>,
                <<STR_UInt32Property, 4>> } }

ScalarMenu ==
    { IntProp,
      P(NAME_Health, STR_BoolProperty, <<1, 0>>, TRUE),
      P(NAME_Slot, STR_StrProperty, <<0>> \o LE32(3) \o <<97, 98, 0>>, TRUE),
      P(NAME_Slot, STR_StrProperty, <<0>> \o LE32(0), TRUE),
      P(NAME_Slot, STR_StrProperty, <<0>> \o EncI32(-1), FALSE),
      P(NAME_Slot, STR_StrProperty, <<0>> \o LE32(200) \o <<97>>, FALSE),
      P(NAME_Slot, STR_NameProperty, <<0>> \o EncFName(N(NAME_Slot)), TRUE),
      P(NAME_Slot, STR_NameProperty, <<0>> \o EncFNameNum(N(NAME_Slot), 5), TRUE),
      P(NAME_Slot, STR_NameProperty, <<0>> \o EncFName(Len(PropNames)), FALSE),
      P(NAME_Slot, STR_ByteProperty, NoneName \o <<0, 9>>, TRUE),
      P(NAME_Slot, STR_ByteProperty,
        EncFName(N(NAME_EMode)) \o <<0>> \o EncFName(N(NAME_Slot)), TRUE),
      P(NAME_Slot, STR_EnumProperty,
        EncFName(N(NAME_EMode)) \o <<0>> \o EncFName(N(NAME_Slot)), TRUE),
      P(NAME_Slot, STR_SoftClassPath, <<0>> \o EncFString(PATH_A), TRUE),
      P(NAME_Slot, STR_SoftObjectProperty, <<0>> \o EncFString(PATH_B), TRUE),
      P(NAME_Slot, STR_TextProperty,
        <<0>> \o LE32(2) \o <<0>> \o EncFString(PATH_A) \o EncFString(<<>>)
            \o EncFString(PATH_B), TRUE),
      P(NAME_Slot, STR_TextProperty, <<0>> \o LE32(2) \o <<255>> \o LE32(0), TRUE),
      P(NAME_Slot, STR_TextProperty,
        <<0>> \o LE32(2) \o <<255>> \o LE32(1) \o EncFString(PATH_A), TRUE),
      P(NAME_Slot, STR_TextProperty, <<0>> \o LE32(2) \o <<7>>, TRUE),
      NoneTypeProp,
      UnknownProp,
      FowProp(STR_FloatProeprty, 2),
      FowProp(STR_IntProperty, 4) }

\* The header readArrayStructHeader reads before the elements of a struct
\* array.
EncArrayStructHeader(name, size, elementType) ==
    EncFName(N(name)) \o EncFName(N(STR_StructProperty)) \o LE32(size) \o LE32(0)
        \o EncFName(N(elementType)) \o G16 \o <<0>>

EncArray(elementsType, count, items) ==
    EncFName(N(elementsType)) \o <<0>> \o LE32(count) \o items

EncMap(keyType, valueType, count, items) ==
    EncFName(N(keyType)) \o EncFName(N(valueType)) \o <<0, 0, 0, 0, 0>>
        \o EncI32(count) \o items

EncStruct(structName, payload) == EncFName(N(structName)) \o G16 \o <<0>> \o payload

CompositeMenu ==
    { P(NAME_Slot, STR_ArrayProperty,
        EncArray(STR_IntProperty, 2, LE32(1) \o LE32(2)), TRUE),
      P(NAME_Slot, STR_ArrayProperty,
        EncArray(STR_StructProperty, 1,
                 EncArrayStructHeader(NAME_Slot, 16, STR_Guid) \o G16), TRUE),
      P(NAME_Slot, STR_ArrayProperty,
        EncArray(STR_StructProperty, 2,
                 EncArrayStructHeader(NAME_Slot, 0, NAME_Stats)
                     \o IntProp.bytes \o NoneName \o NoneName), TRUE),
      P(NAME_Slot, STR_ArrayProperty, EncArray(STR_None, 2, <<>>), TRUE),
      P(NAME_Slot, STR_ArrayProperty, EncArray(STR_ObjectProperty, 1, EncI32(1)), TRUE),
      P(NAME_Slot, STR_ArrayProperty, EncArray(STR_FloatProeprty, 1, LE32(1)), FALSE),
      P(NAME_Slot, STR_ArrayProperty, EncArray(STR_MapProperty, 1, LE32(1)), FALSE),
      P(NAME_Slot, STR_ArrayProperty, EncArray(STR_IntProperty, 3, LE32(1)), FALSE),
      P(NAME_Slot, STR_StructProperty, EncStruct(STR_Guid, G16), TRUE),
      P(NAME_Slot, STR_StructProperty, EncStruct(STR_Vector, G16 \o SubSeq(G16, 1, 8)), TRUE),
      P(NAME_Slot, STR_StructProperty, EncStruct(STR_Timespan, SubSeq(G16, 1, 8)), TRUE),
      P(NAME_Slot, STR_StructProperty, EncStruct(STR_DateTime, SubSeq(G16, 1, 8)), TRUE),
      P(NAME_Slot, STR_StructProperty,
        EncStruct(STR_SoftObjectPath, LE32(3) \o <<47, 65, 0>>), TRUE),
      P(NAME_Slot, STR_StructProperty,
        EncStruct(STR_SoftClassPath, LE32(0)), TRUE),
      StatsProp,
      P(NAME_Slot, STR_StructProperty,
        EncStruct(NAME_Stats, StatsProp.bytes \o ObjProp(0).bytes \o NoneName), TRUE),
      P(NAME_Slot, STR_MapProperty,
        EncMap(STR_IntProperty, STR_NameProperty, 1,
               LE32(1) \o EncFName(N(NAME_Slot))), TRUE),
      P(NAME_Slot, STR_MapProperty, EncMap(STR_IntProperty, STR_IntProperty, 0, <<>>), TRUE),
      P(NAME_Slot, STR_MapProperty, EncMap(STR_IntProperty, STR_IntProperty, -1, <<>>), FALSE),
      P(NAME_Slot, STR_MapProperty,
        EncMap(STR_IntProperty, STR_FloatProeprty, 1, LE32(1) \o LE32(2)), FALSE) }

ObjectMenu == { ObjProp(i) : i \in {-2, -1, 0, 1, 2, 3} }

\* The properties a list starts with, and the properties that may follow.
PropMenu == ScalarMenu \cup NumMenu \cup CompositeMenu \cup ObjectMenu
FollowMenu == { IntProp, StatsProp, ObjProp(1), NoneTypeProp, UnknownProp }

RECURSIVE FollowSeqs(_)
FollowSeqs(n) ==
    IF n = 0 THEN { <<>> }
    ELSE { <<>> } \cup { <<a>> \o t : a \in FollowMenu, t \in FollowSeqs(n - 1) }

PropSeqs ==
    { <<>> } \cup { <<a>> \o t : a \in PropMenu, t \in FollowSeqs(MaxProps - 1) }

PropBytes(props) == Flatten([i \in 1..Len(props) |-> props[i].bytes])

\* What ends a list: the name None, None with a number, nothing, a name
\* index past the table.
TermMenu ==
    { [bytes |-> NoneName, none |-> TRUE],
      [bytes |-> EncFNameNum(N(STR_None), 3), none |-> TRUE],
      [bytes |-> <<>>, none |-> FALSE],
      [bytes |-> EncFName(Len(PropNames)), none |-> FALSE] }

\* What follows the terminator in the buffer.
RestMenu == { <<>>, IntProp.bytes \o NoneName }

\* What precedes the list in the buffer.
LeadMenu == { <<>>, <<9, 9, 9>> }

NameInputs ==
    { [table |-> t, index |-> i, numbered |-> n, cut |-> c] :
        t \in { <<>>, <<STR_None>>, PropNames },
        i \in {0, 1, 2, 31, 32, 33, 32767},
        n \in BOOLEAN,
        c \in {0, 1} }

EncNameInput(x) ==
    LET whole == IF x.numbered THEN EncFNameNum(x.index, 1) ELSE EncFName(x.index)
    IN SubSeq(whole, 1, Len(whole) - x.cut) \o (IF x.cut = 0 THEN <<7>> ELSE <<>>)

\* One value read by getPropertyValue on its own.  payload is what the type
\* reads in raw mode and value what it decodes to; in tagged mode the pad
\* byte is written where the reader of the type skips it (after the value
\* byte of a BoolProperty, before the payload of every other type here).
\* bad says that an element of the payload cannot be read.
ValueInput(type, payload, value, raw, pad, rest, bad) ==
    [type |-> type, payload |-> payload, value |-> value, raw |-> raw,
     pad |-> pad, rest |-> rest, bad |-> bad]

NumValue(bytes) == [k |-> "num", raw |-> bytes]
StrValue(str) == [k |-> "str", v |-> str]

\* The scalar types with a header pad: <<type, payload, value>>.
PaddedScalars ==
    { <<t[1], [i \in 1..t[2] |-> 16 + i], NumValue([i \in 1..t[2] |-> 16 + i])>> :
        t \in { <<STR_IntProperty, 4>>, <<STR_Int16Property, 2>>,
                <<STR_Int64Property, 8>>, <<STR_UInt64Property, 8>>,
                <<STR_FloatProperty, 4>>, <<STR_DoubleProperty, 8>>,
                <<STR_UInt16Property, 2>>, <<STR_UInt32Property, 4>> } }
    \cup { <<STR_StrProperty, LE32(3) \o <<97, 98, 0>>, StrValue(<<97, 98>>)>>,
           <<STR_StrProperty, LE32(0), StrValue(<<>>)>>,
           <<STR_NameProperty, EncFName(N(NAME_Slot)), StrValue(NAME_Slot)>>,
           <<STR_NameProperty, EncFNameNum(N(NAME_Health), 5), StrValue(NAME_Health)>>,
           <<STR_SoftObjectProperty, EncFString(PATH_A), StrValue(PATH_A)>>,
           <<STR_SoftClassPath, EncFString(PATH_B), StrValue(PATH_B)>>,
           <<STR_SoftClassPath, EncFString(<<>>), StrValue(<<>>)>>,
           <<STR_ObjectProperty, EncI32(1), [k |-> "object", ClassName |-> PATH_B]>>,
           <<STR_ObjectProperty, EncI32(-1), [k |-> "object", ClassName |-> <<>>]>> }

BoolScalars ==
    { <<STR_BoolProperty, <<0>>, [k |-> "bool", v |-> FALSE]>>,
      <<STR_BoolProperty, <<1>>, [k |-> "bool", v |-> TRUE]>>,
      <<STR_BoolProperty, <<2>>, [k |-> "bool", v |-> FALSE]>> }

PadMenu == {0, 1, 7}
ValueRestMenu == { <<>>, <<1, 0, 0, 0, 9>> }

ScalarInputs ==
    { ValueInput(s[1], s[2], s[3], raw, pad, rest, FALSE) :
        s \in PaddedScalars \cup BoolScalars, raw \in BOOLEAN, pad \in PadMenu,
        rest \in ValueRestMenu }

\* Arrays of Guid structs: the redundant name of the header with or without
\* a number, the element type with or without one, count elements of 16
\* bytes.  value holds the count and whether the redundant name is numbered.
ArrayStructInputs ==
    { ValueInput(STR_ArrayProperty,
                 EncArray(STR_StructProperty, n,
                     (IF numbered THEN EncFNameNum(N(NAME_Slot), 5)
                      ELSE EncFName(N(NAME_Slot)))
                     \o EncFName(N(STR_StructProperty)) \o LE32(16 * n) \o LE32(0)
                     \o (IF elemNumbered THEN EncFNameNum(N(STR_Guid), 1)
                         ELSE EncFName(N(STR_Guid)))
                     \o G16 \o <<0>>
                     \o Flatten([i \in 1..n |-> G16])),
                 [count |-> n, numbered |-> numbered], FALSE, 0, rest, FALSE) :
        numbered \in BOOLEAN, elemNumbered \in BOOLEAN, n \in 0..MaxProps,
        rest \in ValueRestMenu }

\* The elements of arrays of other types, as raw mode reads them:
\* <<payload, value>> by element type.
ElemMenu(t) ==
    CASE t = STR_IntProperty ->
             { <<LE32(1), NumValue(LE32(1))>>, <<LE32(2), NumValue(LE32(2))>> }
      [] t = STR_StrProperty ->
             { <<LE32(3) \o <<97, 98, 0>>, StrValue(<<97, 98>>)>>,
               <<LE32(0), StrValue(<<>>)>> }
      [] t = STR_NameProperty ->
             { <<EncFName(N(NAME_Slot)), StrValue(NAME_Slot)>>,
               <<EncFNameNum(N(NAME_Health), 5), StrValue(NAME_Health)>> }
      [] t = STR_BoolProperty ->
             { <<<<1>>, [k |-> "bool", v |-> TRUE]>>,
               <<<<0>>, [k |-> "bool", v |-> FALSE]>> }
      [] t = STR_ByteProperty -> { <<<<9>>, [k |-> "byte", v |-> 9]>> }
      [] t = STR_ObjectProperty ->
             { <<EncI32(1), [k |-> "object", ClassName |-> PATH_B]>>,
               <<EncI32(-1), [k |-> "object", ClassName |-> <<>>]>> }
      [] t = STR_None -> { <<<<>>, [k |-> "nil"]>> }
      [] OTHER -> {}

\* An element that cannot be read: a name index past the table, an object
\* index past the table, nothing where a value of 4 bytes is due, any bytes
\* of a type the decoder does not know.
BadElemMenu(t) ==
    CASE t = STR_NameProperty -> { <<EncFName(Len(PropNames)), [k |-> "bad"]>> }
      [] t = STR_ObjectProperty -> { <<EncI32(5), [k |-> "bad"]>> }
      [] t = STR_IntProperty -> { <<<<>>, [k |-> "bad"]>>, <<<<1, [k |-> "bad"]>>, [k |-> "bad"]>> }
      [] t = STR_FloatProeprty -> { <<LE32(1), [k |-> "bad"]>> }
      [] OTHER -> {}

ElemTypes ==
    { STR_IntProperty, STR_StrProperty, STR_NameProperty, STR_BoolProperty,
      STR_ByteProperty, STR_ObjectProperty, STR_None, STR_FloatProeprty }

ElemSeqs(t, n) == [1..n -> ElemMenu(t)]

ArrayOf(t, n, es, rest, bad) ==
    ValueInput(STR_ArrayProperty,
               EncArray(t, n, Flatten([i \in 1..Len(es) |-> es[i][1]])),
               [count |-> n, etype |-> t,
                items |-> [i \in 1..Len(es) |-> es[i][2]]],
               FALSE, 0, rest, bad)

\* Arrays whose elements can all be read, and arrays with an element that
\* cannot, after at most one that can and before at most one that can.
ArrayInputs ==
    UNION { { ArrayOf(t, n, es, rest, FALSE) :
                es \in ElemSeqs(t, n), rest \in ValueRestMenu } :
            t \in ElemTypes, n \in 0..MaxProps }
    \cup
    UNION { UNION { { ArrayOf(t, Len(pre) + 1 + Len(post), pre \o <<e>> \o post,
                              <<>>, TRUE) :
                        pre \in ElemSeqs(t, 0) \cup ElemSeqs(t, 1),
                        post \in IF Len(e[1]) < 4 THEN { <<>> }
                                 ELSE ElemSeqs(t, 0) \cup ElemSeqs(t, 1) } :
                    e \in BadElemMenu(t) } :
            t \in ElemTypes }

\* ByteProperty values: one byte in raw mode; in tagged mode an enum name,
\* a pad byte and then a byte (enum name None, with or without number) or
\* the name of an enum value.
ByteInputs ==
    { ValueInput(STR_ByteProperty, <<v>>, [k |-> "byte", v |-> v], TRUE, 0, rest, FALSE) :
        v \in {0, 9, 255}, rest \in ValueRestMenu }
    \cup
    { ValueInput(STR_ByteProperty, none \o <<pad, v>>, [k |-> "byte", v |-> v],
                 FALSE, pad, rest, FALSE) :
        none \in { NoneName, EncFNameNum(N(STR_None), 3) }, v \in {0, 9, 255},
        pad \in PadMenu, rest \in ValueRestMenu }
    \cup
    { ValueInput(STR_ByteProperty, EncFName(N(NAME_EMode)) \o <<pad>> \o e[1],
                 StrValue(e[2]), FALSE, pad, rest, FALSE) :
        e \in { <<EncFName(N(NAME_Slot)), NAME_Slot>>,
                <<EncFNameNum(N(NAME_Health), 2), NAME_Health>>,
                <<NoneName, STR_None>> },
        pad \in PadMenu, rest \in ValueRestMenu }

\* TextProperty values: flags, a history type and what that type holds.
\* <<history type, bytes after it, data decoded from them>>.
TextBodies ==
    { <<0, EncFString(PATH_A) \o EncFString(<<>>) \o EncFString(PATH_B),
        [k |-> "TextPropertyData", Namespace |-> PATH_A, Key |-> <<>>,
         SourceString |-> PATH_B]>>,
      <<255, LE32(0), [k |-> "nil"]>>,
      <<255, LE32(1) \o EncFString(PATH_A), [k |-> "TextData", Data |-> PATH_A]>>,
      <<255, LE32(256) \o EncFString(<<>>), [k |-> "TextData", Data |-> <<>>]>> }
    \cup
    { <<h, <<>>, [k |-> "TextPropertyData", Namespace |-> STR_UNSUPPORTED,
                 Key |-> STR_UNSUPPORTED, SourceString |-> STR_UNSUPPORTED]>> :
        h \in {1, 2, 7, 254} }

TextInputs ==
    { ValueInput(STR_TextProperty, LE32(flags) \o <<t[1]>> \o t[2],
                 [k |-> "text", Flags |-> flags, HistoryType |-> t[1], Data |-> t[3]],
                 raw, pad, rest, FALSE) :
        t \in TextBodies, flags \in {0, 2}, raw \in BOOLEAN, pad \in {0, 7},
        rest \in ValueRestMenu }

\* StrProperty payloads by length prefix: the bytes declared and their
\* zero, no bytes, a negative length, more bytes declared than are left,
\* bytes declared and none left.
StrLenInputs ==
    { ValueInput(STR_StrProperty, EncI32(x[1]) \o x[2], [len |-> x[1]], TRUE, 0,
                 <<>>, x[1] < 0 \/ x[1] > Len(x[2])) :
        x \in { <<3, <<97, 98, 0>>>>, <<1, <<0>>>>, <<0, <<>>>>, <<0, <<97>>>>,
                <<-1, <<>>>>, <<-1, <<97, 98>>>>, <<-2147483647, <<97>>>>,
                <<200, <<97>>>>, <<3, <<97, 98>>>>, <<2, <<>>>> } }

ValueInputs ==
    ScalarInputs \cup ArrayStructInputs \cup ArrayInputs \cup ByteInputs
        \cup TextInputs \cup StrLenInputs

\* The bytes of a value input.
EncValueInput(x) ==
    IF x.raw \/ x.type \in {STR_ArrayProperty, STR_ByteProperty}
    THEN x.payload \o x.rest
    ELSE IF x.type = STR_BoolProperty THEN x.payload \o <<x.pad>> \o x.rest
    ELSE <<x.pad>> \o x.payload \o x.rest

\* The u16 words ReadFName is applied to, each followed by the four bytes
\* of an int32 and by one byte more.
FNameInputs ==
    { [w |-> w, number |-> n] :
        w \in {0, 1, 29, 255, 256, 32767, 32768, 32769, 32797, 65535},
        n \in {0, 5, 65536, -1, -2147483647} }

EncFNameInput(x) == EncU16(x.w) \o EncI32(x.number) \o <<7>>

\* One property named FowVisitedCoordinates read by readProperty: its
\* declared type, the four bytes of its size (size is their value, -1 when
\* size + 19 is past 2^32) and the number of bytes that follow the index.
FowInputs ==
    { [type |-> t, sizeBytes |-> LE32(n), size |-> n, have |-> h] :
        t \in {STR_IntProperty, STR_ArrayProperty, STR_FloatProeprty, STR_None},
        n \in {0, 2, 4}, h \in {0, 1, 18, 19, 20, 21, 23, 30} }
    \cup
    { [type |-> STR_IntProperty, sizeBytes |-> x, size |-> -1, have |-> h] :
        x \in { <<237, 255, 255, 255>>, <<240, 255, 255, 255>>,
                <<255, 255, 255, 255>> },
        h \in {0, 3, 30} }

EncFowInput(x) ==
    EncFName(N(STR_FowVisitedCoordinates)) \o EncFName(N(x.type)) \o x.sizeBytes
        \o LE32(0) \o [i \in 1..x.have |-> 100 + i]

ContainerIdle ==
    /\ file = [exists |-> FALSE]
    /\ cpc = "idle"
    /\ ci = 0
    /\ saveFile = NoSaveFile
    /\ result = <<>>
    /\ bufs = <<>>
    /\ cerr = ""

InitProperties ==
    /\ ContainerIdle
    /\ pc = "start"
    /\ ret = <<>>
    /\ \/ /\ entry = "readProperties"
          /\ env = PropEnv
          /\ inp \in { [props |-> s, term |-> t, rest |-> r, lead |-> l] :
                         s \in PropSeqs, t \in TermMenu, r \in RestMenu,
                         l \in LeadMenu }
          /\ inp.term.none \/ inp.rest = <<>>
          /\ buf = inp.lead \o PropBytes(inp.props) \o inp.term.bytes \o inp.rest
       \/ /\ entry = "readName"
          /\ inp \in NameInputs
          /\ env = [ZeroSaveData EXCEPT !.NamesTable = inp.table]
          /\ buf = EncNameInput(inp)
       \/ /\ entry = "ReadFName"
          /\ inp \in FNameInputs
          /\ env = ZeroSaveData
          /\ buf = EncFNameInput(inp)
       \/ /\ entry = "readProperty"
          /\ inp \in FowInputs
          /\ env = PropEnv
          /\ buf = EncFowInput(inp)
       \/ /\ entry = "getPropertyValue"
          /\ inp \in ValueInputs
          /\ env = PropEnv
          /\ buf = EncValueInput(inp)

CallReadProperties ==
    /\ pc = "start"
    /\ entry = "readProperties"
    /\ ret' = readProperties(buf, Len(inp.lead), env)
    /\ pc' = "done"
    /\ UNCHANGED <<cvars, inp, buf, env, entry>>

CallReadName ==
    /\ pc = "start"
    /\ entry = "readName"
    /\ ret' = readName(buf, 0, env)
    /\ pc' = "done"
    /\ UNCHANGED <<cvars, inp, buf, env, entry>>

CallGetPropertyValue ==
    /\ pc = "start"
    /\ entry = "getPropertyValue"
    /\ ret' = getPropertyValue(buf, 0, inp.type, Len(inp.payload), env, inp.raw)
    /\ pc' = "done"
    /\ UNCHANGED <<cvars, inp, buf, env, entry>>

CallReadFName ==
    /\ pc = "start"
    /\ entry = "ReadFName"
    /\ ret' = ReadFName(buf, 0)
    /\ pc' = "done"
    /\ UNCHANGED <<cvars, inp, buf, env, entry>>

CallReadProperty ==
    /\ pc = "start"
    /\ entry = "readProperty"
    /\ ret' = readProperty(buf, 0, env)
    /\ pc' = "done"
    /\ UNCHANGED <<cvars, inp, buf, env, entry>>

NextProperties ==
    \/ CallReadProperties
    \/ CallReadProperty
    \/ CallReadName
    \/ CallReadFName
    \/ CallGetPropertyValue

SpecProperties == InitProperties /\ [][NextProperties]_vars

-----------------------------------------------------------------------------
(* Object bodies and component lists.                                      *)

NAME_Inventory == <<73, 110, 118, 101, 110, 116, 111, 114, 121>>

GoodMenu == { IntProp, StatsProp, ObjProp(1) }

RECURSIVE GoodSeqs(_)
GoodSeqs(n) ==
    IF n = 0 THEN { <<>> }
    ELSE { <<>> } \cup { <<a>> \o t : a \in GoodMenu, t \in GoodSeqs(n - 1) }

\* A property list that reads without error: the bytes of a body.
ListBodies == { PropBytes(ps) \o NoneName : ps \in GoodSeqs(MaxProps) }

\* The body readVariables reads: name, eight bytes, count, entries.
EncVariables(count, entries) ==
    EncFName(N(NAME_Slot)) \o EncU64(0) \o LE32(count) \o entries

\* "variables", a key that is none of the keys of a variables block.
NAME_variables == <<118, 97, 114, 105, 97, 98, 108, 101, 115>>

\* The component keys written with a variables block as their body.
KeyMenu ==
    {STR_GlobalVariables, STR_Variables, STR_Variable, STR_PersistenceKeys,
     STR_PersistenceKeys1, STR_PersistanceKeys1, NAME_variables}

\* A variables block of one Int entry; read as a property list it is a
\* property of type None followed by garbage.
VarsBody == EncVariables(1, EncFName(N(NAME_Health)) \o <<2>> \o LE32(5))

VariablesBodies ==
    { EncVariables(0, <<>>),
      EncVariables(2, EncFName(N(NAME_Health)) \o <<2>> \o LE32(5)
                          \o EncFName(N(NAME_Slot)) \o <<4>> \o EncFName(N(NAME_EMode))),
      EncVariables(1, EncFName(N(NAME_Health)) \o <<1>> \o LE32(1)) }

\* The declared length of a body of n bytes, off by delta.
Declared(n, delta) == IF n + delta < 0 THEN 0 ELSE n + delta

\* A component: key, declared length, body; used is the length of the body.
Comp(key, body, delta) ==
    [bytes |-> EncFString(key) \o LE32(Declared(Len(body), delta)) \o body,
     key |-> key, length |-> Declared(Len(body), delta), used |-> Len(body),
     body |-> body]

CompMenu ==
    { Comp(NAME_Inventory, body, d) : body \in ListBodies, d \in {-1, 0, 1} }
        \cup { Comp(STR_Variables, body, d) : body \in VariablesBodies, d \in {-1, 0, 2} }
        \cup { Comp(key, VarsBody, 0) : key \in KeyMenu }
        \cup { Comp(NAME_variables, IntProp.bytes \o NoneName, 0) }
        \cup { Comp(STR_GlobalVariables, EncVariables(0, <<>>), 0),
               Comp(STR_Variables, EncVariables(1, NoneName), 0),
               Comp(STR_Variables, EncVariables(1, EncFName(N(NAME_Health)) \o <<9>>), 0) }

\* A component whose body is as long as declared.
ExactCompMenu == { c \in CompMenu : c.length = c.used }

RECURSIVE ExactCompSeqs(_)
ExactCompSeqs(n) ==
    IF n = 0 THEN { <<>> }
    ELSE { <<>> } \cup { <<c>> \o t : c \in { Comp(NAME_Inventory, IntProp.bytes \o NoneName, 0),
                                              Comp(STR_Variables, EncVariables(0, <<>>), 0) },
                                       t \in ExactCompSeqs(n - 1) }

\* Component lists: exact components, then one component of the menu last.
CompSeqs ==
    { <<>> } \cup { t \o <<c>> : t \in ExactCompSeqs(MaxComps - 1), c \in CompMenu }

TailMenu == { <<>>, <<9>>, <<9, 9, 9, 9>> }

\* A struct property whose own list has no terminator.
OpenStatsProp ==
    P(NAME_Stats, STR_StructProperty,
      EncFName(N(NAME_Stats)) \o G16 \o <<0>> \o IntProp.bytes, FALSE)

\* Bodies that end, with the buffer, before a terminator is met: in the
\* list of the object ("top") or in the list of a struct of it ("nested").
CutBodies ==
    { [bytes |-> PropBytes(ps), cut |-> "top"] : ps \in GoodSeqs(MaxProps) }
        \cup { [bytes |-> PropBytes(ps) \o OpenStatsProp.bytes, cut |-> "nested"] :
                 ps \in GoodSeqs(MaxProps - 1) }

\* An object body to read: cut is "none" for a list with its terminator.
ObjectInputs ==
    { [body |-> body, length |-> Declared(Len(body), d), rest |-> r, lead |-> l,
       cut |-> "none"] :
        body \in ListBodies, d \in {-100, -2, -1, 0, 1, 2, 3}, r \in TailMenu,
        l \in LeadMenu }
        \cup { [body |-> c.bytes, length |-> Len(c.bytes), rest |-> <<>>, lead |-> l,
                 cut |-> c.cut] :
                 c \in { x \in CutBodies : x.bytes # <<>> }, l \in LeadMenu }

ComponentInputs ==
    { [comps |-> cs, rest |-> r] : cs \in CompSeqs, r \in TailMenu }

CompBytes(comps) == Flatten([i \in 1..Len(comps) |-> comps[i].bytes])

\* A variables block read on its own: the type_enum of each of its entries.
\* An entry is a name, the type_enum and four bytes, or, for a Name, a name
\* reference.
VariablesInputs ==
    { [types |-> ts, rest |-> r] :
        ts \in UNION { [1..n -> 0..4] : n \in 0..MaxProps }, r \in {<<>>, <<9>>} }

EncVariable(t) ==
    EncFName(N(NAME_Health)) \o <<t>>
        \o (IF t = 4 THEN EncFName(N(NAME_EMode)) ELSE LE32(5))

EncVariablesInput(x) ==
    EncVariables(Len(x.types),
                 Flatten([i \in 1..Len(x.types) |-> EncVariable(x.types[i])]))

InitBodies ==
    /\ ContainerIdle
    /\ pc = "start"
    /\ ret = <<>>
    /\ env = PropEnv
    /\ \/ /\ entry = "readObjectData"
          /\ inp \in ObjectInputs
          /\ buf = inp.lead \o LE32(inp.length) \o inp.body \o inp.rest
       \/ /\ entry = "readComponents"
          /\ inp \in ComponentInputs
          /\ buf = LE32(Len(inp.comps)) \o CompBytes(inp.comps) \o inp.rest
       \/ /\ entry = "readVariables"
          /\ inp \in VariablesInputs
          /\ buf = EncVariablesInput(inp) \o inp.rest

CallReadObjectData ==
    /\ pc = "start"
    /\ entry = "readObjectData"
    /\ ret' = readObjectData(buf, Len(inp.lead), PropObjects[1], env)
    /\ pc' = "done"
    /\ UNCHANGED <<cvars, inp, buf, env, entry>>

CallReadComponents ==
    /\ pc = "start"
    /\ entry = "readComponents"
    /\ ret' = readComponents(buf, 0, env)
    /\ pc' = "done"
    /\ UNCHANGED <<cvars, inp, buf, env, entry>>

CallReadVariables ==
    /\ pc = "start"
    /\ entry = "readVariables"
    /\ ret' = readVariables(buf, 0, env)
    /\ pc' = "done"
    /\ UNCHANGED <<cvars, inp, buf, env, entry>>

NextBodies ==
    \/ CallReadObjectData
    \/ CallReadComponents
    \/ CallReadVariables

SpecBodies == InitBodies /\ [][NextBodies]_vars

-----------------------------------------------------------------------------
(* Whole archives, with archives nested in them.                           *)

NAME_Blob == <<66, 108, 111, 98>>

\* An object of an archive to encode: its row of the object table and its
\* body.  The path of a loaded object 0 is not written when the archive has
\* a class path.
EncObjectRow(o, id, hasClassPath) ==
    IF o.loaded
    THEN <<1>> \o (IF id = 0 /\ hasClassPath THEN <<>> ELSE EncFString(o.path))
    ELSE <<0>> \o EncFString(o.path) \o EncFName(o.name) \o LE32(o.outer)

EncObjectData(o, id) == LE32(id) \o LE32(Len(o.body)) \o o.body \o <<0>>

\* An archive as readSaveData reads it from cursor `base`: head is the
\* package version and class path written before the offsets.
EncSaveData(base, head, hasClassPath, names, objs) ==
    LET data == Flatten([j \in 1..Len(objs) |-> EncObjectData(objs[j], j - 1)])
        namesBytes == EncI32(Len(names)) \o
                          Flatten([j \in 1..Len(names) |-> EncFString(names[j])])
        rows == EncI32(Len(objs)) \o
                    Flatten([j \in 1..Len(objs) |->
                                EncObjectRow(objs[j], j - 1, hasClassPath)])
        namesAt == base + Len(head) + 20 + Len(data)
    IN head \o EncU64(namesAt) \o LE32(3) \o EncU64(namesAt + Len(namesBytes))
            \o data \o namesBytes \o rows

PropIn(table, name, type, payload) ==
    EncFName(IndexIn(table, name)) \o EncFName(IndexIn(table, type))
        \o LE32(Len(payload)) \o LE32(0) \o payload

\* The names tables of nested archives: the names of the outer table in
\* another order, so that no index means the same name in both.
OuterNames ==
    <<STR_None, STR_IntProperty, STR_StructProperty, STR_PersistenceBlob,
      NAME_Blob, NAME_Health, NAME_Slot, STR_NameProperty, STR_ObjectProperty>>

NestedTables ==
    { <<NAME_Slot, STR_None, STR_ObjectProperty, STR_NameProperty,
        STR_IntProperty, NAME_Health, NAME_EMode, NAME_Blob, STR_StructProperty>>,
      <<NAME_Health, STR_NameProperty, STR_None, NAME_Slot, STR_IntProperty,
        STR_ObjectProperty>> }

\* The properties of a nested object, with the value each is read as.
NestedPropMenu(table) ==
    { [bytes |-> PropIn(table, NAME_Health, STR_IntProperty, <<0>> \o LE32(7)),
       name |-> NAME_Health, type |-> STR_IntProperty,
       value |-> [k |-> "num", raw |-> LE32(7)]],
      [bytes |-> PropIn(table, NAME_Slot, STR_NameProperty,
                        <<0>> \o EncFName(IndexIn(table, NAME_Health))),
       name |-> NAME_Slot, type |-> STR_NameProperty,
       value |-> [k |-> "str", v |-> NAME_Health]],
      [bytes |-> PropIn(table, NAME_Slot, STR_ObjectProperty, <<0>> \o EncI32(0)),
       name |-> NAME_Slot, type |-> STR_ObjectProperty,
       value |-> [k |-> "object", ClassName |-> PATH_B]] }

RECURSIVE NestedPropSeqs(_, _)
NestedPropSeqs(table, n) ==
    IF n = 0 THEN { <<>> }
    ELSE { <<>> } \cup { <<a>> \o t : a \in NestedPropMenu(table),
                                      t \in NestedPropSeqs(table, n - 1) }

\* A nested archive to encode: its names table and the properties of its
\* one object, whose path is PATH_B.
NestedArchives ==
    UNION { { [names |-> t, props |-> ps] : ps \in NestedPropSeqs(t, MaxProps) } :
              t \in NestedTables }

NestedObjects(g) ==
    <<[loaded |-> TRUE, path |-> PATH_B, name |-> 0, outer |-> 0,
       body |-> PropBytes(g.props) \o EncFName(IndexIn(g.names, STR_None))]>>

\* The blob of an inner archive: package version, no class path.
EncInnerArchive(g, ue4) ==
    EncSaveData(0, LE32(ue4) \o LE32(1008), FALSE, g.names, NestedObjects(g))

\* An actor of a container: with or without a transform, then an archive
\* with neither package version nor class path.
EncActor(g, hasTransform) ==
    IF hasTransform
    THEN LE32(1) \o Zeros(80) \o EncSaveData(84, <<>>, FALSE, g.names, NestedObjects(g))
    ELSE LE32(0) \o EncSaveData(4, <<>>, FALSE, g.names, NestedObjects(g))

ActorId(j) == <<j, 0, 0, 0, 0, 0, 0, 1>>

\* The blob of a container: version and offsets, the actors, the table of
\* actors and destroyed ids, the dynamic actors.
EncContainer(version, actors, dynamicIds) ==
    LET blobs == [j \in 1..Len(actors) |-> EncActor(actors[j], j = 1)]
        offs == [j \in 1..Len(actors) |->
                    12 + Len(Flatten(SubSeq(blobs, 1, j - 1)))]
        index == LE32(Len(actors)) \o
                     Flatten([j \in 1..Len(actors) |->
                                 ActorId(j) \o LE32(offs[j]) \o LE32(Len(blobs[j]))])
                     \o LE32(1) \o ActorId(9)
        dynamic == LE32(Len(dynamicIds)) \o
                       Flatten([j \in 1..Len(dynamicIds) |->
                                   ActorId(dynamicIds[j]) \o Zeros(80)
                                       \o EncFString(PATH_A) \o EncFString(<<>>)])
        indexAt == 12 + Len(Flatten(blobs))
    IN LE32(version) \o LE32(indexAt) \o LE32(indexAt + Len(index))
           \o Flatten(blobs) \o index \o dynamic

\* The class path of the outer archive, as a record and as written.
ClassPath(path) == [Path |-> path, Name |-> NAME_Blob]
EncClassPath(path) == EncFString(path) \o EncFString(NAME_Blob)

\* A PersistenceBlob struct property of the outer archive.
BlobProp(blob) ==
    PropIn(OuterNames, NAME_Blob, STR_StructProperty,
           EncFName(IndexIn(OuterNames, STR_PersistenceBlob)) \o G16 \o <<0>>
               \o LE32(Len(blob)) \o blob)

OuterIntProp == PropIn(OuterNames, NAME_Health, STR_IntProperty, <<0>> \o LE32(7))

\* A whole archive to encode: the class path, the nested archives of its
\* blob (one inner archive under the profile class path, the actors of a
\* container under any other), and whether a property follows the blob.
WholeInputs ==
    { [path |-> REMNANT_SAVE_GAME_PROFILE, nested |-> <<g>>, follow |-> f, first |-> u] :
        g \in NestedArchives, f \in BOOLEAN, u \in {4, 522} }
    \cup
    { [path |-> REMNANT_SAVE_GAME, nested |-> <<g>>, follow |-> f, first |-> u] :
        g \in NestedArchives, f \in BOOLEAN, u \in {4, 7} }
    \cup
    { [path |-> REMNANT_SAVE_GAME, nested |-> <<g, h>>, follow |-> TRUE, first |-> 4] :
        g \in { x \in NestedArchives : Len(x.props) = MaxProps },
        h \in { x \in NestedArchives : Len(x.props) = 1 } }

EncBlob(x) ==
    IF x.path = REMNANT_SAVE_GAME_PROFILE
    THEN EncInnerArchive(x.nested[1], x.first)
    ELSE EncContainer(x.first, x.nested, <<1, 5>>)

OuterObjects(x) ==
    <<[loaded |-> TRUE, path |-> <<>>, name |-> 0, outer |-> 0,
       body |-> BlobProp(EncBlob(x)) \o (IF x.follow THEN OuterIntProp ELSE <<>>)
                    \o EncFName(IndexIn(OuterNames, STR_None))],
      [loaded |-> FALSE, path |-> PATH_A, name |-> IndexIn(OuterNames, NAME_Slot),
       outer |-> 0, body |-> <<>>]>>

EncWhole(x) ==
    G16 \o EncSaveData(16, LE32(522) \o LE32(1008) \o EncClassPath(x.path), TRUE,
                       OuterNames, OuterObjects(x))

\* A blob read on its own: the scope it is read in (no class path, as in a
\* nested archive, or one of the two class paths) and what the blob holds.
BlobScopes ==
    { [ZeroSaveData EXCEPT !.NamesTable = OuterNames],
      [ZeroSaveData EXCEPT !.NamesTable = OuterNames,
                           !.SaveGameClassPath = PtrTo(ClassPath(REMNANT_SAVE_GAME_PROFILE))],
      [ZeroSaveData EXCEPT !.NamesTable = OuterNames,
                           !.SaveGameClassPath = PtrTo(ClassPath(REMNANT_SAVE_GAME))] }

BlobInputs ==
    { [holds |-> h, first |-> u, nested |-> <<g>>, rest |-> r] :
        h \in {"archive", "container"}, u \in {4, 7, 522},
        g \in { x \in NestedArchives : Len(x.props) <= 1 }, r \in {<<>>, <<9>>} }

EncBlobInput(x) ==
    IF x.holds = "archive" THEN EncInnerArchive(x.nested[1], x.first)
    ELSE EncContainer(x.first, x.nested, <<1>>)

\* An archive read by readSaveData on its own: whether it has a class path,
\* which of its objects were loaded, and for each object the index its one
\* ObjectProperty refers to (-9: the body is empty).
TableInputs ==
    UNION { { [hasClassPath |-> c, loaded |-> l, refs |-> r] :
                c \in BOOLEAN, l \in [1..n -> BOOLEAN],
                r \in [1..n -> {-9} \cup (0..(n - 1))] } :
            n \in 1..MaxObjects }

\* The path written for object j, another for every object.
TablePath(j) == <<47, 64 + j>>

TableObjects(x) ==
    [j \in 1..Len(x.loaded) |->
        [loaded |-> x.loaded[j], path |-> TablePath(j),
         name |-> IndexIn(OuterNames, NAME_Slot), outer |-> j,
         body |-> IF x.refs[j] = -9 THEN <<>>
                  ELSE PropIn(OuterNames, NAME_Health, STR_ObjectProperty,
                              <<0>> \o EncI32(x.refs[j]))
                           \o EncFName(IndexIn(OuterNames, STR_None))]]

EncTable(x) ==
    EncSaveData(0,
                LE32(522) \o LE32(1008)
                    \o (IF x.hasClassPath THEN EncClassPath(REMNANT_SAVE_GAME)
                        ELSE <<>>),
                x.hasClassPath, OuterNames, TableObjects(x))

\* An object descriptor read on its own: the was_loaded byte, the index of
\* the object and whether the archive has a class path.  The bytes after
\* the was_loaded byte are a path, a name and an outer id.
RowInputs ==
    { [wasLoaded |-> w, id |-> i, hasClassPath |-> c] :
        w \in {0, 1, 2}, i \in {0, 1}, c \in BOOLEAN }

RowScope(x) ==
    [ZeroSaveData EXCEPT
        !.NamesTable = OuterNames,
        !.SaveGameClassPath =
            IF x.hasClassPath THEN PtrTo(ClassPath(REMNANT_SAVE_GAME)) ELSE NilPtr]

EncRow(x) ==
    <<x.wasLoaded>> \o EncFString(PATH_A)
        \o EncFName(IndexIn(OuterNames, NAME_Slot)) \o LE32(7)

\* The two passes of readObjects on their own: n descriptors, and in the
\* data section n bodies, the k-th written under the object id ids[k] (n is
\* an id past the table) and holding the one IntProperty of value k.  Odd
\* objects were loaded; actor says that every body is followed by an empty
\* component list.
PassInputs ==
    UNION { { [ids |-> ids, actor |-> a] : ids \in [1..n -> 0..n], a \in BOOLEAN } :
            n \in 1..MaxObjects }

PassRow(j) ==
    [loaded |-> (j % 2 = 1), path |-> TablePath(j),
     name |-> IndexIn(OuterNames, NAME_Slot), outer |-> j]

PassBody(k) ==
    PropIn(OuterNames, NAME_Health, STR_IntProperty, <<0>> \o LE32(k))
        \o EncFName(IndexIn(OuterNames, STR_None))

EncPassData(x) ==
    Flatten([k \in 1..Len(x.ids) |->
                LE32(x.ids[k]) \o LE32(Len(PassBody(k))) \o PassBody(k)
                    \o (IF x.actor THEN <<1>> \o LE32(0) ELSE <<0>>)])

EncPass(x) ==
    EncPassData(x) \o EncI32(Len(x.ids))
        \o Flatten([j \in 1..Len(x.ids) |-> EncObjectRow(PassRow(j), j - 1, FALSE)])

PassScope == [ZeroSaveData EXCEPT !.NamesTable = OuterNames]

\* The archive of a container actor read on its own, with or without a
\* transform.  Its one object has an IntProperty, or a PersistenceBlob struct
\* property that holds an inner archive, a container or nothing.
ActorInputs ==
    { [hasTransform |-> t, prop |-> "int", nested |-> <<>>] : t \in BOOLEAN }
    \cup
    { [hasTransform |-> t, prop |-> "blob", nested |-> <<>>] : t \in BOOLEAN }
    \cup
    { [hasTransform |-> t, prop |-> h, nested |-> <<g>>] :
        t \in BOOLEAN, h \in {"blob archive", "blob container"},
        g \in { x \in NestedArchives : Len(x.props) <= 1 } }

ActorBody(x) ==
    (CASE x.prop = "int" -> OuterIntProp
       [] x.prop = "blob" -> BlobProp(<<>>)
       [] x.prop = "blob archive" -> BlobProp(EncInnerArchive(x.nested[1], 4))
       [] x.prop = "blob container" -> BlobProp(EncContainer(4, x.nested, <<>>)))
        \o EncFName(IndexIn(OuterNames, STR_None))

EncActorInput(x) ==
    (IF x.hasTransform THEN LE32(1) \o Zeros(80) ELSE LE32(0))
        \o EncSaveData(IF x.hasTransform THEN 84 ELSE 4, <<>>, FALSE, OuterNames,
                       <<[loaded |-> TRUE, path |-> PATH_A, name |-> 0, outer |-> 0,
                          body |-> ActorBody(x)]>>)

InitArchive ==
    /\ ContainerIdle
    /\ pc = "start"
    /\ ret = <<>>
    /\ \/ /\ entry = "ReadSaveArchive"
          /\ inp \in WholeInputs
          /\ env = ZeroSaveData
          /\ buf = EncWhole(inp)
       \/ /\ entry = "readStructPropertyData"
          /\ inp \in BlobInputs
          /\ env \in BlobScopes
          /\ buf = LE32(Len(EncBlobInput(inp))) \o EncBlobInput(inp) \o inp.rest
       \/ /\ entry = "readSaveData"
          /\ inp \in TableInputs
          /\ env = ZeroSaveData
          /\ buf = EncTable(inp)
       \/ /\ entry = "readObjects"
          /\ inp \in PassInputs
          /\ env = PassScope
          /\ buf = EncPass(inp)
       \/ /\ entry = "readActor"
          /\ inp \in ActorInputs
          /\ env = ZeroSaveData
          /\ buf = EncActorInput(inp)
       \/ /\ entry = "readObject"
          /\ inp \in RowInputs
          /\ env = RowScope(inp)
          /\ buf = EncRow(inp)

CallReadSaveArchive ==
    /\ pc = "start"
    /\ entry = "ReadSaveArchive"
    /\ ret' = ReadSaveArchive(buf)
    /\ pc' = "done"
    /\ UNCHANGED <<cvars, inp, buf, env, entry>>

CallReadStructPropertyData ==
    /\ pc = "start"
    /\ entry = "readStructPropertyData"
    /\ ret' = readStructPropertyData(buf, 0, STR_PersistenceBlob, env)
    /\ pc' = "done"
    /\ UNCHANGED <<cvars, inp, buf, env, entry>>

CallReadSaveData ==
    /\ pc = "start"
    /\ entry = "readSaveData"
    /\ ret' = readSaveData(buf, 0, TRUE, inp.hasClassPath)
    /\ pc' = "done"
    /\ UNCHANGED <<cvars, inp, buf, env, entry>>

CallReadObject ==
    /\ pc = "start"
    /\ entry = "readObject"
    /\ ret' = readObject(buf, 0, env, inp.id)
    /\ pc' = "done"
    /\ UNCHANGED <<cvars, inp, buf, env, entry>>

CallReadObjects ==
    /\ pc = "start"
    /\ entry = "readObjects"
    /\ ret' = readObjects(buf, 0, EncU64(Len(EncPassData(inp))), 0, env)
    /\ pc' = "done"
    /\ UNCHANGED <<cvars, inp, buf, env, entry>>

CallReadActor ==
    /\ pc = "start"
    /\ entry = "readActor"
    /\ ret' = readActor(buf)
    /\ pc' = "done"
    /\ UNCHANGED <<cvars, inp, buf, env, entry>>

NextArchive ==
    \/ CallReadObjects
    \/ CallReadActor
    \/ CallReadSaveArchive
    \/ CallReadStructPropertyData
    \/ CallReadSaveData
    \/ CallReadObject

SpecArchive == InitArchive /\ [][NextArchive]_vars

-----------------------------------------------------------------------------
(* Two decodes of one buffer by one process, stepped side by side.  Each   *)
(* run has a reader of its own over the buffer; the functions of package   *)
(* remnant write no package-level variable, so a run is given the buffer   *)
(* and nothing else.  pc and ret hold the position and the outcome of the  *)
(* two runs; a run takes two steps, readSaveHeader and readSaveData.       *)

\* The buffers decoded twice: whole archives, and archives cut short by a
\* few bytes or by many.
TwiceInputs ==
    { [whole |-> x, cut |-> c] :
        x \in { y \in WholeInputs : Len(y.nested) = 1 /\ Len(y.nested[1].props) <= 1 },
        c \in {0, 1, 2, 25, 60} }

InitTwice ==
    /\ ContainerIdle
    /\ entry = "twice"
    /\ inp \in TwiceInputs
    /\ env = ZeroSaveData
    /\ buf = SubSeq(EncWhole(inp.whole), 1, Len(EncWhole(inp.whole)) - inp.cut)
    /\ pc = <<"start", "start">>
    /\ ret = << <<>>, <<>> >>

\* ReadSaveArchive, up to the return of readSaveHeader.
ReadHeaderStep(i) ==
    /\ pc[i] = "start"
    /\ ret' = [ret EXCEPT ![i] = ReadBytes(buf, 0, 16)]
    /\ pc' = [pc EXCEPT ![i] = IF ReadBytes(buf, 0, 16).st = "ok" THEN "data"
                                ELSE "done"]
    /\ UNCHANGED <<cvars, inp, buf, env, entry>>

\* ReadSaveArchive, from the call of readSaveData to its return.
ReadDataStep(i) ==
    /\ pc[i] = "data"
    /\ ret' = [ret EXCEPT ![i] = ReadSaveArchive(buf)]
    /\ pc' = [pc EXCEPT ![i] = "done"]
    /\ UNCHANGED <<cvars, inp, buf, env, entry>>

NextTwice ==
    \/ \E i \in {1, 2} : ReadHeaderStep(i)
    \/ \E i \in {1, 2} : ReadDataStep(i)

SpecTwice == InitTwice /\ [][NextTwice]_vars

-----------------------------------------------------------------------------
(* Claims about the container layer (checked under SpecContainer).         *)

RECURSIVE ConcatAll(_)
ConcatAll(ss) == IF ss = <<>> THEN <<>> ELSE BCat(Head(ss), ConcatAll(Tail(ss)))

RECURSIVE SumLen(_)
SumLen(ss) == IF ss = <<>> THEN 0 ELSE BLen(Head(ss)) + SumLen(Tail(ss))

TruncatedMidChunk ==
    /\ file.exists
    /\ file.hdrBytes = FileHeaderSize
    /\ \/ file.partial > 0
       \/ /\ file.chunks # <<>>
          /\ LET c == file.chunks[Len(file.chunks)]
             IN c.chi > 0 \/ file.lastAvail < c.clo

\* The file ends exactly after its header or after a whole chunk.
EndsAtBoundary ==
    /\ file.exists
    /\ file.hdrBytes = FileHeaderSize
    /\ ~TruncatedMidChunk

ChunkLoopOver == cpc \notin {"open", "chunks"}

\* C9: the chunk loop of readSave ends normally exactly when end-of-input is
\* met at a chunk boundary; end-of-input inside a chunk header or inside a
\* chunk's payload is always reported as an error, never a successful
\* result or a shortened chunk.
C9_Claim ==
    ChunkLoopOver =>
        /\ EndsAtBoundary =>
              /\ cerr \notin {"EOF", "unexpected EOF", "makeslice: len out of range"}
              /\ Len(saveFile.Chunks) = Len(file.chunks)
        /\ TruncatedMidChunk =>
              /\ cpc = "error"
              /\ cerr \in {"EOF", "unexpected EOF"}

\* A chunk over one of the two caps of decompressData.
Oversize(data) ==
    \/ data.len > maxCompressedSize
    \/ BLen(data.z.out) > maxDecompressedSize

\* C10: a chunk whose compressed input or whose decompressed output exceeds
\* its cap makes decoding fail with an error; it is never accepted and never
\* contributes bytes to the output buffer.
C10_Claim ==
    /\ \A i \in 1..Len(bufs) : ~Oversize(saveFile.Chunks[i])
    /\ cpc = "ok" => \A i \in 1..Len(saveFile.Chunks) : ~Oversize(saveFile.Chunks[i])

-----------------------------------------------------------------------------
(* Claims about the property codec. *)

AllGood(props) == \A i \in 1..Len(props) : props[i].good
ListDone == entry = "readProperties" /\ pc = "done"

\* C2: readProperties stops at the first property name "None": given whole
\* properties followed by the name "None", it returns those properties and
\* leaves the cursor immediately after the terminator name, whatever follows
\* in the buffer; with no terminator name it returns no list.
C2_StopsAtNone ==
    (ListDone /\ AllGood(inp.props)) =>
        IF inp.term.none
        THEN /\ ret.st = "ok"
             /\ ret.p = Len(inp.lead) + Len(PropBytes(inp.props)) + Len(inp.term.bytes)
             /\ Len(ret.v) = Len(inp.props)
             /\ \A i \in 1..Len(ret.v) :
                  ret.v[i].Name = inp.props[i].name /\ ret.v[i].Type = inp.props[i].type
        ELSE ret.st = "err"

C2_Witness ==
    /\ ListDone
    /\ ret.st = "ok"
    /\ AllGood(inp.props)
    /\ Len(inp.props) = MaxProps
    /\ inp.props[1].type = STR_StructProperty
    /\ inp.rest # <<>>
    /\ inp.lead # <<>>

\* The case labels of getPropertyValue that read a value.
RecognizedTypes ==
    {STR_IntProperty, STR_Int16Property, STR_Int64Property, STR_UInt64Property,
     STR_FloatProperty, STR_DoubleProperty, STR_UInt16Property, STR_UInt32Property,
     STR_SoftClassPath, STR_SoftObjectProperty, STR_BoolProperty, STR_MapProperty,
     STR_EnumProperty, STR_StrProperty, STR_TextProperty, STR_NameProperty,
     STR_ArrayProperty, STR_StructProperty, STR_ObjectProperty, STR_ByteProperty}

\* The first property of the list whose type is not a recognized one, the
\* properties before it whole: 0 when there is none.
FirstUnrecognized ==
    IF \E i \in 1..Len(inp.props) :
          inp.props[i].type \notin RecognizedTypes /\ AllGood(SubSeq(inp.props, 1, i - 1))
    THEN CHOOSE i \in 1..Len(inp.props) :
          inp.props[i].type \notin RecognizedTypes /\ AllGood(SubSeq(inp.props, 1, i - 1))
    ELSE 0

RefusedNaming(type) == ret.st = "err" /\ ret.v = type

C4_NameInTable ==
    (entry = "readName" /\ pc = "done") =>
        /\ ret.st = "ok" =>
            /\ inp.index < Len(env.NamesTable)
            /\ ret.v = env.NamesTable[inp.index + 1]
        /\ (inp.cut = 0 /\ inp.index >= Len(env.NamesTable)) => ret.st = "err"
        /\ (inp.cut = 0 /\ inp.index < Len(env.NamesTable)) => ret.st = "ok"

C4_Witness ==
    /\ entry = "readName"
    /\ pc = "done"
    /\ inp.index = Len(env.NamesTable)
    /\ inp.index > 0
    /\ inp.cut = 0
    /\ ret.st = "err"

\* C5 as stated: an ObjectProperty whose index is -1 is null, one whose index
\* is in [0, len(objects)) is the object_path of that object, and any other
\* index is a returned error.
C5_Claim ==
    (ListDone /\ inp.props # <<>> /\ inp.props[1].obj # -9) =>
        LET i == inp.props[1].obj
        IN IF i = -1 THEN ret.st = "ok" => ret.v[1].Value.ClassName = <<>>
           ELSE IF i >= 0 /\ i < Len(env.Objects)
           THEN ret.st = "ok" => ret.v[1].Value.ClassName = env.Objects[i + 1].ObjectPath
           ELSE ret.st = "err"

-----------------------------------------------------------------------------
(* Claims about object and component bodies. *)

\* The components whose variables block reads without error or panic.
CompReads(c) ==
    c.bytes \notin { Comp(STR_Variables, EncVariables(1, NoneName), 0).bytes,
                     Comp(STR_Variables,
                          EncVariables(1, EncFName(N(NAME_Health)) \o <<9>>), 0).bytes }

\* C1 as stated: after an object body or a component body of declared
\* length L that starts at s has been read, the cursor is at s + L, and the
\* step that takes it there never fails, whatever number of bytes the
\* property reader consumed.
C1_Claim ==
    /\ (entry = "readObjectData" /\ pc = "done") =>
          ret.st = "ok" /\ ret.p = Len(inp.lead) + 4 + inp.length
    /\ (entry = "readComponents" /\ pc = "done"
            /\ \A i \in 1..Len(inp.comps) : CompReads(inp.comps[i])) =>
          ret.st = "ok" /\ ret.p = 4 + Len(CompBytes(inp.comps))
                                     + (IF inp.comps = <<>> THEN 0
                                        ELSE inp.comps[Len(inp.comps)].length
                                                 - inp.comps[Len(inp.comps)].used)

-----------------------------------------------------------------------------
(* Claims about nested archives. *)

BlobDone == entry = "readStructPropertyData" /\ pc = "done"
WholeDone == entry = "ReadSaveArchive" /\ pc = "done"

NestedMatches(archive, g) ==
    /\ archive.NamesTable = g.names
    /\ Len(archive.Objects) = 1
    /\ archive.Objects[1].ObjectPath = PATH_B
    /\ Len(archive.Objects[1].Properties) = Len(g.props)
    /\ \A i \in 1..Len(g.props) :
         LET property == archive.Objects[1].Properties[i]
         IN /\ property.Name = g.props[i].name
            /\ property.Type = g.props[i].type
            /\ property.Value = g.props[i].value

\* The value of the blob property of the outer archive's first object.
BlobValue == ret.v.Data.Objects[1].Properties[1].Value.Value

\* C7: inside a nested archive (the inner archive of a blob, the archive of
\* an actor of a container) every name and every object reference is
\* resolved against the nested archive's own tables; the names and objects
\* of the enclosing archive are the ones it was read with, and the property
\* that follows the blob is resolved against them.
C7_NestedScope ==
    WholeDone =>
        /\ ret.st = "ok"
        /\ ret.v.Data.NamesTable = OuterNames
        /\ Len(ret.v.Data.Objects) = 2
        /\ ret.v.Data.Objects[1].ObjectPath = inp.path
        /\ ret.v.Data.Objects[2].ObjectPath = PATH_A
        /\ ret.v.Data.Objects[2].LoadedData.v.Name = NAME_Slot
        /\ ret.v.Data.Objects[1].Properties[1].Name = NAME_Blob
        /\ Len(ret.v.Data.Objects[1].Properties) = (IF inp.follow THEN 2 ELSE 1)
        /\ inp.follow =>
             /\ ret.v.Data.Objects[1].Properties[2].Name = NAME_Health
             /\ ret.v.Data.Objects[1].Properties[2].Type = STR_IntProperty
        /\ IF inp.path = REMNANT_SAVE_GAME_PROFILE
           THEN /\ BlobValue.k = "PersistenceBlob"
                /\ NestedMatches(BlobValue.Archive, inp.nested[1])
           ELSE /\ BlobValue.k = "PersistenceContainer"
                /\ \A j \in 1..Len(inp.nested) :
                     /\ ActorId(j) \in DOMAIN BlobValue.Actors
                     /\ NestedMatches(BlobValue.Actors[ActorId(j)].Archive, inp.nested[j])

C7_Witness ==
    /\ WholeDone
    /\ ret.st = "ok"
    /\ inp.follow
    /\ Len(inp.nested) = 2
    /\ BlobValue.k = "PersistenceContainer"
    /\ inp.nested[1].names # inp.nested[2].names
    /\ Len(BlobValue.Actors[ActorId(1)].Archive.Objects[1].Properties) = MaxProps

-----------------------------------------------------------------------------
(* Further claims about the container layer (checked under SpecContainer). *)

\* C11 as stated: every failure of the container decoder (a file that
\* cannot be read, a corrupt or truncated zlib stream, an oversize chunk, a
\* truncated chunk) is returned to the caller as an error value; ReadData
\* never panics on such input.  The file is one that could be opened.
C11_Claim == file.exists => cpc # "panic"

-----------------------------------------------------------------------------
(* Further claims about nested archives (checked under SpecArchive).       *)

\* The unique ids of the info table of the container that was encoded.
InfoIds == { ActorId(j) : j \in 1..Len(inp.nested) }

\* The container a run decoded, when it decoded one.
ContainerDecoded ==
    \/ BlobDone /\ ret.st = "ok" /\ ret.v.k = "PersistenceContainer"
    \/ WholeDone /\ ret.st = "ok" /\ BlobValue.k = "PersistenceContainer"

DecodedActors == IF BlobDone THEN ret.v.Actors ELSE BlobValue.Actors

\* C12 as stated: after a PersistenceContainer has been decoded the set of
\* actor keys is the set of unique ids of the info table; a dynamic entry is
\* attached to the actor of the same id, whose archive and transform stay as
\* parsed, and never creates an actor that has no entry in the info table.
C12_Claim ==
    ContainerDecoded =>
        /\ DOMAIN DecodedActors = InfoIds
        /\ \A j \in 1..Len(inp.nested) :
              NestedMatches(DecodedActors[ActorId(j)].Archive, inp.nested[j])

TableDone == entry = "readSaveData" /\ pc = "done"

\* The path object j of the archive read is expected to have: the class
\* path for a loaded object 0 of an archive that has one, else its own.
TableExpectedPath(j) ==
    IF inp.loaded[j] /\ j = 1 /\ inp.hasClassPath THEN REMNANT_SAVE_GAME
    ELSE TablePath(j)

\* C13: in an archive the names table is read before any object descriptor
\* and every object descriptor before the first property payload: the name
\* of every descriptor is the entry of the names table, and an
\* ObjectProperty of the body of any object, whichever object it refers to
\* (an earlier one, itself or a later one), is resolved to the path of that
\* object's descriptor.
C13_TablesBeforeBodies ==
    TableDone =>
        /\ ret.st = "ok"
        /\ ret.v.NamesTable = OuterNames
        /\ Len(ret.v.Objects) = Len(inp.loaded)
        /\ \A j \in 1..Len(inp.loaded) :
              /\ ret.v.Objects[j].ObjectPath = TableExpectedPath(j)
              /\ ~inp.loaded[j] => ret.v.Objects[j].LoadedData.v.Name = NAME_Slot
              /\ IF inp.refs[j] = -9 THEN ret.v.Objects[j].Properties = <<>>
                 ELSE /\ Len(ret.v.Objects[j].Properties) = 1
                      /\ ret.v.Objects[j].Properties[1].Value.ClassName =
                             TableExpectedPath(inp.refs[j] + 1)

\* A run over an archive whose first object refers to its second.
C13_Witness ==
    /\ TableDone
    /\ ret.st = "ok"
    /\ Len(inp.loaded) >= 2
    /\ inp.refs[1] = 1
    /\ ret.v.Objects[1].Properties[1].Value.ClassName = TablePath(2)

-----------------------------------------------------------------------------
(* Further claims about object and component bodies (checked under         *)
(* SpecBodies).                                                            *)

ObjectDone == entry = "readObjectData" /\ pc = "done"

\* C14 as stated: when the property list of an object body meets the end of
\* the input before a terminator, readObjectData recovers: it returns no
\* error and leaves the cursor at the declared end of the body; when the
\* list of a nested struct does, the error is returned to the caller.
C14_Claim ==
    /\ (ObjectDone /\ inp.cut = "top") =>
          /\ ret.st = "ok"
          /\ ret.p = Len(inp.lead) + 4 + inp.length
    /\ (ObjectDone /\ inp.cut = "nested") => ret.st = "err"

CompsDone == entry = "readComponents" /\ pc = "done"

\* The keys the claim lists.
C15_Keys ==
    {STR_GlobalVariables, STR_Variables, STR_Variable, STR_PersistenceKeys,
     STR_PersistenceKeys1, STR_PersistanceKeys1}

\* C15: a component's body is read as a variables block exactly when its
\* key is GlobalVariables, Variables, Variable, PersistenceKeys,
\* PersistenceKeys1 or PersistanceKeys1, and as a property list ended by
\* None for any other key; the components returned are component_count in
\* number and in the order of the stream.  A list of components whose
\* bodies are as long as declared and readable is read without error.
C15_Dispatch ==
    CompsDone =>
        /\ (\A i \in 1..Len(inp.comps) :
               /\ inp.comps[i].length = inp.comps[i].used
               /\ CompReads(inp.comps[i])) => ret.st = "ok"
        /\ ret.st = "ok" =>
              /\ Len(ret.v) = Len(inp.comps)
              /\ \A i \in 1..Len(inp.comps) :
                    /\ ret.v[i].ComponentKey = inp.comps[i].key
                    /\ IF inp.comps[i].key \in C15_Keys
                       THEN /\ Len(ret.v[i].Properties) = 1
                            /\ ret.v[i].Properties[1].Name = inp.comps[i].key
                            /\ ret.v[i].Properties[1].Value =
                                   readVariables(inp.comps[i].body, 0, env).v
                            /\ ret.v[i].Properties[1].Value.k = "Variables"
                       ELSE ret.v[i].Properties =
                                readProperties(inp.comps[i].body, 0, env).v

\* A run over two components, a property list and then a variables block
\* under the misspelt key.
C15_Witness ==
    /\ CompsDone
    /\ ret.st = "ok"
    /\ Len(ret.v) = 2
    /\ ret.v[1].ComponentKey = NAME_Inventory
    /\ Len(ret.v[1].Properties) = 1
    /\ ret.v[2].ComponentKey = STR_PersistanceKeys1
    /\ Len(ret.v[2].Properties[1].Value.Properties) = 1

VarsDone == entry = "readVariables" /\ pc = "done"

\* What an entry of type_enum t is read as: its value for None, Bool, Int,
\* Float and Name.
C16_Decoded(t, property) ==
    CASE t = 0 -> property.Value = NilValue
      [] t = 1 -> property.Value = [k |-> "bool", v |-> TRUE]
      [] t \in {2, 3} -> property.Value = [k |-> "num", raw |-> LE32(5)]
      [] t = 4 -> property.Value = [k |-> "str", v |-> NAME_EMode]

\* C16 as stated: a variables block whose header declares n entries, each of
\* a type_enum in 0..4, decodes to n entries in stream order; type_enum 0,
\* 1, 2, 3 and 4 decode to None, Bool, Int, Float and Name, and an entry has
\* a name reference exactly when its type_enum is Name.
C16_Claim ==
    VarsDone =>
        /\ ret.st = "ok"
        /\ Len(ret.v.Properties) = Len(inp.types)
        /\ \A i \in 1..Len(inp.types) :
              /\ ret.v.Properties[i].Name = NAME_Health
              /\ C16_Decoded(inp.types[i], ret.v.Properties[i])

RowDone == entry = "readObject" /\ pc = "done"

\* C17: when the descriptor of object i is read, its path is the class path
\* of the archive, and no string is read from the stream, if was_loaded is
\* not 0, i is 0 and the archive has a class path; in every other case its
\* path is an FString read from the stream.
C17_ObjectPath ==
    RowDone =>
        /\ ret.st = "ok"
        /\ IF inp.wasLoaded # 0 /\ inp.id = 0 /\ inp.hasClassPath
           THEN /\ ret.v.ObjectPath = REMNANT_SAVE_GAME
                /\ ret.p = 1
           ELSE /\ ret.v.ObjectPath = PATH_A
                /\ ret.p = 1 + Len(EncFString(PATH_A))
                             + (IF inp.wasLoaded = 0 THEN 6 ELSE 0)

\* The descriptor of a loaded object of index 1 read in an archive that has
\* a class path: its path is read from the stream.
C17_Witness ==
    /\ RowDone
    /\ ret.st = "ok"
    /\ inp.wasLoaded = 2
    /\ inp.id = 1
    /\ inp.hasClassPath
    /\ ret.v.ObjectPath = PATH_A

\* C18 as stated: a decoded object descriptor has loaded data (a name and an
\* outer id) if and only if was_loaded is false.
C18_Claim ==
    /\ (RowDone /\ ret.st = "ok") => (ret.v.LoadedData.nil <=> ret.v.WasLoaded)
    /\ (TableDone /\ ret.st = "ok") =>
          \A j \in 1..Len(ret.v.Objects) :
              ret.v.Objects[j].LoadedData.nil <=> ret.v.Objects[j].WasLoaded

-----------------------------------------------------------------------------
(* Claims about two decodes of one buffer (checked under SpecTwice).       *)

-----------------------------------------------------------------------------
(* Claims about termination (checked under SpecProperties).                *)

\* C20: a run of the property-list loop over a finite buffer ends with a
\* result or an error: it ends neither in a run-time panic nor in log.Fatal.
C20_Claim ==
    (entry = "readProperties" /\ pc = "done") => ret.st \in {"ok", "err"}

-----------------------------------------------------------------------------
(* Claims about single values (checked under SpecProperties).              *)

ValueDone == entry = "getPropertyValue" /\ pc = "done"

\* C21: a scalar with a header pad read in tagged mode skips one byte and
\* then reads what raw mode reads: the cursor ends one byte further and the
\* value is the same; a BoolProperty reads its value byte first, 1 byte in
\* raw mode and 2 bytes in tagged mode.
C21_PadByte ==
    (ValueDone /\ inp \in ScalarInputs) =>
        /\ ret.st = "ok"
        /\ ret.v = inp.value
        /\ ret.p = Len(inp.payload) + (IF inp.raw THEN 0 ELSE 1)
        /\ inp.type = STR_BoolProperty =>
              ret.p = (IF inp.raw THEN 1 ELSE 2) /\ ret.v.v = (buf[1] = 1)

\* A tagged BoolProperty whose value byte is 0 and whose pad byte is 1 has
\* been read as false, 2 bytes consumed.
C21_Witness ==
    /\ ValueDone
    /\ inp \in ScalarInputs
    /\ inp.type = STR_BoolProperty
    /\ ~inp.raw
    /\ inp.payload = <<0>>
    /\ inp.pad = 1
    /\ ret.st = "ok"
    /\ ret.p = 2
    /\ ret.v.v = FALSE


\* C22: an array of structs is read to its end, the redundant name of its
\* header consumed as an FName (6 bytes when it carries a number), and has
\* as many items as its count.
C22_Claim ==
    (ValueDone /\ inp \in ArrayStructInputs) =>
        /\ ret.st = "ok"
        /\ ret.p = Len(inp.payload)
        /\ Len(ret.v.Items) = inp.value.count


\* C23: an array of a non-struct element type that is decoded has its
\* declared count as Count and as many items, item k the value of the k-th
\* element as raw mode reads it, and the cursor is behind the last element;
\* when an element cannot be read the read of the array gives no array.
C23_ArrayItems ==
    (ValueDone /\ inp \in ArrayInputs) =>
        IF inp.bad THEN ret.st # "ok" /\ ret.v \in {<<>>, inp.value.etype}
        ELSE /\ ret.st = "ok"
             /\ ret.v.k = "ArrayProperty"
             /\ ret.v.Count = inp.value.count
             /\ ret.v.ElementType = inp.value.etype
             /\ ret.v.Items = inp.value.items
             /\ ret.p = Len(inp.payload)

\* An array of two different names has been decoded.
C23_Witness ==
    /\ ValueDone
    /\ inp \in ArrayInputs
    /\ ~inp.bad
    /\ inp.value.etype = STR_NameProperty
    /\ inp.value.count = 2
    /\ ret.st = "ok"
    /\ Len(ret.v.Items) = 2
    /\ ret.v.Items[1] # ret.v.Items[2]


\* C24: a raw ByteProperty is the one byte at the cursor; a tagged one is
\* an enum name, a pad byte and then the byte after the pad when the name is
\* None, the name of the enum value after the pad otherwise.
C24_ByteProperty ==
    (ValueDone /\ inp \in ByteInputs) =>
        /\ ret.st = "ok"
        /\ ret.v = inp.value
        /\ ret.p = Len(inp.payload)
        /\ inp.raw => ret.p = 1 /\ ret.v.v = buf[1]

\* A tagged ByteProperty of enum EMode has been decoded to the name of its
\* value, the pad byte 7 skipped.
C24_Witness ==
    /\ ValueDone
    /\ inp \in ByteInputs
    /\ ~inp.raw
    /\ inp.pad = 7
    /\ ret.st = "ok"
    /\ ret.v = StrValue(NAME_Slot)
    /\ ret.p = 5


\* C25: a TextProperty of a history type other than 0 and 255 is decoded,
\* with no error, to the UNSUPPORTED record, the cursor behind the history
\* type byte; history type 255 holds a u32 flag and, when the flag is not
\* zero, one FString; history type 0 holds three FStrings.
C25_TextProperty ==
    (ValueDone /\ inp \in TextInputs) =>
        /\ ret.st = "ok"
        /\ ret.v = inp.value
        /\ ret.p = Len(inp.payload) + (IF inp.raw THEN 0 ELSE 1)
        /\ inp.value.HistoryType \notin {0, 255} =>
              /\ ret.p = (IF inp.raw THEN 0 ELSE 1) + 4 + 1
              /\ ret.v.Data.Namespace = STR_UNSUPPORTED
              /\ ret.v.Data.Key = STR_UNSUPPORTED
              /\ ret.v.Data.SourceString = STR_UNSUPPORTED

\* A tagged TextProperty of history type 7 followed by the bytes of a
\* string has been decoded to the UNSUPPORTED record, 6 bytes consumed.
C25_Witness ==
    /\ ValueDone
    /\ inp \in TextInputs
    /\ ~inp.raw
    /\ inp.value.HistoryType = 7
    /\ inp.rest # <<>>
    /\ ret.st = "ok"
    /\ ret.p = 6
    /\ ret.v.Data.Key = STR_UNSUPPORTED


\* C26: a StrProperty payload is read as ReadFString reads the same bytes:
\* both end the same way at the same position with the same string, and a
\* negative length is an error.
C26_Claim ==
    (ValueDone /\ inp \in StrLenInputs) =>
        /\ ret.st = ReadFString(buf, 0).st
        /\ ret.p = ReadFString(buf, 0).p
        /\ ret.st = "ok" => ret.v.v = ReadFString(buf, 0).v
        /\ inp.value.len < 0 => ret.st = "err"


FNameDone == entry = "ReadFName" /\ pc = "done"

\* C27: ReadFName of the u16 w gives the index w mod 2^15, below 32768;
\* when the high bit of w is set the int32 after it is the number and 6
\* bytes are consumed, otherwise the number is 0 and 2 bytes are consumed.
C27_FName ==
    FNameDone =>
        /\ ret.st = "ok"
        /\ ret.v.Index = inp.w % 32768
        /\ ret.v.Index < 32768
        /\ IF inp.w >= 32768
           THEN ret.v.Number = inp.number /\ ret.p = 6
           ELSE ret.v.Number = 0 /\ ret.p = 2

\* The word FFFF followed by the number -1 has been read as index 32767
\* with number -1.
C27_Witness ==
    /\ FNameDone
    /\ inp.w = 65535
    /\ inp.number = -1
    /\ ret.st = "ok"
    /\ ret.v = [Index |-> 32767, Number |-> -1]
    /\ ret.p = 6


-----------------------------------------------------------------------------
(* Further claims about archives (checked under SpecArchive).              *)

PassDone == entry = "readObjects" /\ pc = "done"

\* C28: in the second pass an object id that is not below the count is not
\* used as an index (the pass ends with an error, not in a panic), a pass
\* that ends without error has written as many different slots as the
\* count, and the table still has count descriptors with the path, the
\* loaded flag and the loaded data the first pass gave them.
C28_Claim ==
    PassDone =>
        /\ (\E k \in 1..Len(inp.ids) : inp.ids[k] >= Len(inp.ids)) => ret.st = "err"
        /\ ret.st = "ok" =>
              /\ \A k1, k2 \in 1..Len(inp.ids) :
                    k1 # k2 => inp.ids[k1] # inp.ids[k2]
              /\ Len(ret.v.Objects) = Len(inp.ids)
              /\ \A j \in 1..Len(inp.ids) :
                    /\ ret.v.Objects[j].ObjectPath = TablePath(j)
                    /\ ret.v.Objects[j].WasLoaded = (j % 2 = 1)
                    /\ ret.v.Objects[j].LoadedData.nil = FALSE


ActorDone == entry = "readActor" /\ pc = "done"

\* C29: a PersistenceBlob struct property of an archive read without class
\* path (the inner archive of a blob, the archive of a container actor) is
\* decoded to a value or refused with an error; the read does not end in
\* the dereference of the class path the archive does not have.
C29_Claim ==
    /\ ActorDone => ret.st \in {"ok", "err"}
    /\ (BlobDone /\ env.SaveGameClassPath.nil) => ret.st \in {"ok", "err"}


-----------------------------------------------------------------------------
(* Claims about one property (checked under SpecProperties).               *)

PropertyDone == entry = "readProperty" /\ pc = "done"

\* C30: a property named FowVisitedCoordinates that is read without error
\* has, whatever its declared type, a value of size + 19 raw bytes, and the
\* cursor is size + 19 bytes behind the index field, where the next
\* property starts.
C30_Claim ==
    (PropertyDone /\ inp.size >= 0 /\ ret.st = "ok") =>
        /\ ret.v.Value.k = "bytes"
        /\ Len(ret.v.Value.v) = inp.size + 19
        /\ ret.p = 12 + inp.size + 19

=============================================================================
